---- MODULE Spec2Model ----
(***************************************************************************)
(* A model of the arbitrary-length integer library in src/bigint.c, built  *)
(* with the default digit width (DIGIT_WIDTH 8, src/bigint.h).             *)
(*                                                                         *)
(* The C heap is modelled explicitly: a machine state M holds the          *)
(* bigint_st structures (M.st), the digit buffers they point to (M.bufs),  *)
(* errno, and a fault flag that records an invalid memory access.  Every   *)
(* C function is an operator from a machine state (and its arguments) to   *)
(* a record [M |-> machine state afterwards, r |-> returned value].        *)
(* Pointers are indices into M.st, NULL is 0.                              *)
(***************************************************************************)
EXTENDS Integers, Sequences, FiniteSets, TLC

VARIABLES
    mem,    \* the machine state (heap, errno, fault flag)
    pre,    \* the machine state when the pending call was made
    call,   \* the public operation called and its arguments
    ret,    \* what the call returned
    pc      \* "setup" before the call, "done" after it

vars == <<mem, pre, call, ret, pc>>

----------------------------------------------------------------------------
(* Program constants.                                                      *)

DIGIT_BITS == 8
DIGIT_MAX == 255
DIGITS_FOR_INTMAX == 8
SMALL_NUMBER_CACHE_MAX == 16
NULL == 0
SUPER_BITS == 16

Radix == DIGIT_MAX + 1

----------------------------------------------------------------------------
(* C integer helpers.                                                      *)

RECURSIVE BitAnd(_, _)
BitAnd(x, y) ==
    IF x = 0 \/ y = 0 THEN 0
    ELSE (IF x % 2 = 1 /\ y % 2 = 1 THEN 1 ELSE 0) + 2 * BitAnd(x \div 2, y \div 2)

RECURSIVE BitOr(_, _)
BitOr(x, y) ==
    IF x = 0 THEN y
    ELSE IF y = 0 THEN x
    ELSE (IF x % 2 = 1 \/ y % 2 = 1 THEN 1 ELSE 0) + 2 * BitOr(x \div 2, y \div 2)

Shl(x, k) == x * (2 ^ k)
Shr(x, k) == x \div (2 ^ k)

\* POWER_OF_2(x) on a digit_tt operand: (x) - 1 is computed as an int, so
\* for x = 0 the expression is (-1 & 0) == 0.
POWER_OF_2(x) == IF x = 0 THEN TRUE ELSE BitAnd(x - 1, x) = 0

CEIL_DIV(n, d) == (n \div d) + (IF n % d # 0 THEN 1 ELSE 0)

Max(x, y) == IF x > y THEN x ELSE y
Abs(x) == IF x < 0 THEN -x ELSE x

----------------------------------------------------------------------------
(* Machine integers.                                                       *)

\* A value of type uintmax_t or intmax_t is the sequence of its
\* DIGITS_FOR_INTMAX bytes, least significant first; an intmax_t is in two's
\* complement.  A byte has the width of a digit.
UintmaxZero == [i \in 1..DIGITS_FOR_INTMAX |-> 0]

UINTMAX_MAX == [i \in 1..DIGITS_FOR_INTMAX |-> DIGIT_MAX]

INTMAX_MAX == [i \in 1..DIGITS_FOR_INTMAX |-> IF i = DIGITS_FOR_INTMAX THEN DIGIT_MAX \div 2
                                              ELSE DIGIT_MAX]

INTMAX_MIN == [i \in 1..DIGITS_FOR_INTMAX |-> IF i = DIGITS_FOR_INTMAX THEN (DIGIT_MAX \div 2) + 1
                                              ELSE 0]

\* The conversion of a number 0 <= n < 2^31 to uintmax_t.
Uintmax(n) ==
    [i \in 1..DIGITS_FOR_INTMAX |->
        IF i * DIGIT_BITS <= 2 * SUPER_BITS THEN (n \div (Radix ^ (i - 1))) % Radix ELSE 0]

\* x + y + carry modulo 2^64, carry in {0, 1}, from byte i upward.
RECURSIVE UintmaxAddFrom(_, _, _, _)
UintmaxAddFrom(x, y, carry, i) ==
    IF i > DIGITS_FOR_INTMAX THEN <<>>
    ELSE <<(x[i] + y[i] + carry) % Radix>>
         \o UintmaxAddFrom(x, y, (x[i] + y[i] + carry) \div Radix, i + 1)

UintmaxAdd(x, y) == UintmaxAddFrom(x, y, 0, 1)

\* -x modulo 2^64: ~x + 1.
UintmaxNeg(x) ==
    UintmaxAddFrom([i \in 1..DIGITS_FOR_INTMAX |-> DIGIT_MAX - x[i]], UintmaxZero, 1, 1)

UintmaxSub(x, y) == UintmaxAdd(x, UintmaxNeg(y))

\* x < y as unsigned numbers, deciding from byte i downward.
RECURSIVE UintmaxLessFrom(_, _, _)
UintmaxLessFrom(x, y, i) ==
    IF i = 0 THEN FALSE
    ELSE IF x[i] # y[i] THEN x[i] < y[i]
    ELSE UintmaxLessFrom(x, y, i - 1)

UintmaxLess(x, y) == UintmaxLessFrom(x, y, DIGITS_FOR_INTMAX)

\* x < 0 for an intmax_t x.
IntmaxNegative(x) == x[DIGITS_FOR_INTMAX] > DIGIT_MAX \div 2

\* The conversion of a number -2^31 < k < 2^31 to intmax_t.
Intmax(k) == IF k >= 0 THEN Uintmax(k) ELSE UintmaxNeg(Uintmax(-k))

\* (uintmax_t) INTMAX_MAX + ((uintmax_t) -(INTMAX_MIN + INTMAX_MAX))
INTMAX_MIN_MAGNITUDE ==
    UintmaxAdd(INTMAX_MAX, UintmaxNeg(UintmaxAdd(INTMAX_MIN, INTMAX_MAX)))

\* x & DIGIT_MAX
UintmaxLowDigit(x) == x[1]

\* x >> DIGIT_BITS
UintmaxShrDigit(x) == Tail(x) \o <<0>>

----------------------------------------------------------------------------
(* The heap.                                                               *)

\* Functions of the library and their steps call one another through Call,
\* defined after the last of them.
RECURSIVE Call(_, _, _)

Ret(M, r) == [M |-> M, r |-> r]

NullStruct ==
    [digits |-> NULL, off |-> 0, allocated |-> 0, length |-> 0,
     negative |-> FALSE, live |-> FALSE]

NullBuf == [data |-> <<>>, live |-> FALSE]

\* The structure a pointer designates; a NULL or wild pointer designates
\* nothing, and the accessors below report a fault when it is used.
S(M, p) == IF p \in DOMAIN M.st THEN M.st[p] ELSE NullStruct

B(M, b) == IF b \in DOMAIN M.bufs THEN M.bufs[b] ELSE NullBuf

ValidPtr(M, p) == p \in DOMAIN M.st /\ M.st[p].live

\* An invalid access is undefined behaviour.  The model records it in fault;
\* a loop that is running when fault is set stops where it is.
Fault(M) == [M EXCEPT !.fault = TRUE]

FaultIf(M, c) == IF c THEN Fault(M) ELSE M

\* x->digits[i] is inside a live allocation.
ValidIdx(M, p, i) ==
    /\ ValidPtr(M, p)
    /\ LET s == M.st[p]
       IN /\ s.digits \in DOMAIN M.bufs
          /\ M.bufs[s.digits].live
          /\ s.off + i >= 0
          /\ s.off + i < Len(M.bufs[s.digits].data)

\* Read of x->digits[i]; an invalid read yields an indeterminate digit.
D(M, p, i) ==
    IF ValidIdx(M, p, i)
    THEN M.bufs[M.st[p].digits].data[M.st[p].off + i + 1]
    ELSE M.junk

\* Write of x->digits[i] = v.
WrD(M, p, i, v) ==
    IF ValidIdx(M, p, i)
    THEN [M EXCEPT !.bufs[M.st[p].digits].data[M.st[p].off + i + 1] = v]
    ELSE Fault(M)

SetLength(M, p, n) ==
    IF ValidPtr(M, p) THEN [M EXCEPT !.st[p].length = n] ELSE Fault(M)

SetNegative(M, p, f) ==
    IF ValidPtr(M, p) THEN [M EXCEPT !.st[p].negative = f] ELSE Fault(M)

\* An assignment to errno that is lost.
SetErrnoLost(M, e) == M

SetErrno(M, e) == [M EXCEPT !.errno = e]

\* malloc(3) and realloc(3) fail once the allocation budget is used up;
\* a budget of -1 never fails.
AllocFails(M) == M.fuel = 0

Tick(M) == IF M.fuel > 0 THEN [M EXCEPT !.fuel = M.fuel - 1] ELSE M

\* malloc(sizeof(bigint_st)): a structure with indeterminate fields.
MallocStruct(M) ==
    IF AllocFails(M) THEN Ret(SetErrno(M, "ENOMEM"), NULL)
    ELSE LET M1 == Tick(M)
             p == Len(M1.st) + 1
         IN Ret([M1 EXCEPT !.st = Append(M1.st, [NullStruct EXCEPT !.live = TRUE])], p)

\* safe_calloc(nmemb, sizeof(digit_tt)): malloc without initialisation.
\* sizeof(digit_tt) is 1, so nmemb > SIZE_MAX / size never holds.
safe_calloc(M, nmemb) ==
    IF AllocFails(M) THEN Ret(SetErrno(M, "ENOMEM"), NULL)
    ELSE LET M1 == Tick(M)
             b == Len(M1.bufs) + 1
         IN Ret([M1 EXCEPT !.bufs = Append(M1.bufs,
                    [data |-> [i \in 1..nmemb |-> M1.junk], live |-> TRUE])], b)

\* free(3) of a digit buffer through the pointer x->digits.
FreeBuf(M, b, off) ==
    IF b = NULL /\ off = 0 THEN M
    ELSE IF b \in DOMAIN M.bufs /\ M.bufs[b].live /\ off = 0
    THEN [M EXCEPT !.bufs[b].live = FALSE]
    ELSE Fault(M)

\* free(3) of a structure.
FreeStruct(M, p) ==
    IF p = NULL THEN M
    ELSE IF ValidPtr(M, p) THEN [M EXCEPT !.st[p].live = FALSE]
    ELSE Fault(M)

bigint_free(M, x) ==
    IF ~ValidPtr(M, x) THEN Fault(M)
    ELSE Call("FreeStruct", Call("FreeBuf", M, <<M.st[x].digits, M.st[x].off>>), <<x>>)

\* The doubling loop of resize.  Lengths in this model stay far below
\* SIZE_MAX / 2, so the doubling wraps only from an allocation of 0.
RECURSIVE ResizeAllocated(_, _, _)
ResizeAllocated(allocated, length, original_allocated) ==
    IF length >= allocated
    THEN LET doubled == allocated * 2
         IN IF doubled <= original_allocated THEN length
            ELSE ResizeAllocated(doubled, length, original_allocated)
    ELSE allocated

resize(M, x, length) ==
    IF ~ValidPtr(M, x) THEN Ret(Fault(M), -1)
    ELSE
    LET s == M.st[x]
        original_allocated == s.allocated
        allocated == ResizeAllocated(s.allocated, length, original_allocated)
    IN IF allocated > original_allocated
       THEN IF AllocFails(M)
            THEN Ret(SetErrno(M, "ENOMEM"), -1)
            ELSE IF ~(s.digits \in DOMAIN M.bufs /\ M.bufs[s.digits].live /\ s.off = 0)
            THEN Ret(Fault(M), -1)
            ELSE LET M1 == Tick(M)
                     old == M1.bufs[s.digits].data
                     new == [i \in 1..allocated |->
                                IF i <= original_allocated /\ i <= Len(old) THEN old[i] ELSE 0]
                 IN Ret([M1 EXCEPT !.bufs[s.digits].data = new,
                                   !.st[x].allocated = allocated,
                                   !.st[x].length = length], 0)
       ELSE Ret([M EXCEPT !.st[x].length = length], 0)

resize_sum(M, x, a, b) ==
    LET sum == a + b
    IN IF sum < a THEN Ret(SetErrno(M, "EOVERFLOW"), -1)
       ELSE Call("resize", M, <<x, sum>>)

bigint_eqz(M, x) == S(M, x).length = 0
bigint_nez(M, x) == S(M, x).length # 0
bigint_ltz(M, x) == S(M, x).negative
bigint_lez(M, x) == S(M, x).length = 0 \/ S(M, x).negative
bigint_gtz(M, x) == ~S(M, x).negative /\ S(M, x).length # 0
bigint_gez(M, x) == ~S(M, x).negative

RECURSIVE is_power_of_2_loop(_, _, _)
is_power_of_2_loop(M, x, n) ==
    IF n < S(M, x).length - 1
    THEN IF D(M, x, n) # 0 THEN FALSE ELSE is_power_of_2_loop(M, x, n + 1)
    ELSE POWER_OF_2(D(M, x, S(M, x).length - 1))

bigint_is_power_of_2(M, x) ==
    IF bigint_eqz(M, x) THEN FALSE ELSE Call("is_power_of_2_loop", M, <<x, 0>>)

\* The loop of bigint_movui and bigint_movi that stores the magnitude:
\* dest->digits[offset++] = magnitude & DIGIT_MAX; magnitude >>= DIGIT_BITS.
RECURSIVE StoreMagnitude(_, _, _, _)
StoreMagnitude(M, dest, magnitude, offset) ==
    IF M.fault THEN M
    ELSE IF magnitude # UintmaxZero
    THEN StoreMagnitude(WrD(M, dest, offset, UintmaxLowDigit(magnitude)), dest,
                        UintmaxShrDigit(magnitude), offset + 1)
    ELSE SetLength(M, dest, offset)

bigint_movui(M, dest, src) ==
    LET M1 == SetNegative(M, dest, FALSE)
    IN IF src = UintmaxZero THEN SetLength(M1, dest, 0)
       ELSE Call("StoreMagnitude", M1, <<dest, src, 0>>)

\* The magnitude of src in bigint_movi, for src # 0.
movi_magnitude(src) ==
    IF ~IntmaxNegative(src) THEN src
    ELSE IF src = INTMAX_MIN THEN INTMAX_MIN_MAGNITUDE
    ELSE UintmaxNeg(src)

bigint_movi(M, dest, src) ==
    LET M1 == SetNegative(M, dest, IntmaxNegative(src))
    IN IF src = UintmaxZero THEN SetLength(M1, dest, 0)
       ELSE Call("StoreMagnitude", M1, <<dest, movi_magnitude(src), 0>>)

bigint_from_uint(M, value) ==
    LET a == Call("MallocStruct", M, <<>>)
    IN IF a.r = NULL THEN Ret(a.M, NULL)
       ELSE LET b == Call("safe_calloc", a.M, <<2 * DIGITS_FOR_INTMAX>>)
            IN IF b.r = NULL THEN Ret(Call("FreeStruct", b.M, <<a.r>>), NULL)
               ELSE Ret(Call("bigint_movui", [b.M EXCEPT !.st[a.r].allocated = 2 * DIGITS_FOR_INTMAX,
                                    !.st[a.r].digits = b.r], <<a.r, value>>), a.r)

bigint_from_int(M, value) ==
    LET a == Call("MallocStruct", M, <<>>)
    IN IF a.r = NULL THEN Ret(a.M, NULL)
       ELSE LET b == Call("safe_calloc", a.M, <<2 * DIGITS_FOR_INTMAX>>)
            IN IF b.r = NULL THEN Ret(Call("FreeStruct", b.M, <<a.r>>), NULL)
               ELSE Ret(Call("bigint_movi", [b.M EXCEPT !.st[a.r].allocated = 2 * DIGITS_FOR_INTMAX,
                                    !.st[a.r].digits = b.r], <<a.r, value>>), a.r)

bigint_dup(M, x) ==
    LET a == Call("MallocStruct", M, <<>>)
    IN IF a.r = NULL THEN Ret(a.M, NULL)
       ELSE LET sx == S(M, x)
                b == Call("safe_calloc", a.M, <<sx.allocated>>)
            IN IF b.r = NULL THEN Ret(Call("FreeStruct", b.M, <<a.r>>), NULL)
               ELSE LET data == [i \in 1..sx.allocated |->
                                    IF i <= sx.length THEN D(M, x, i - 1) ELSE 0]
                    IN Ret([b.M EXCEPT
                              !.st[a.r] = [sx EXCEPT !.digits = b.r, !.off = 0, !.live = TRUE],
                              !.bufs[b.r].data = data], a.r)

\* memcpy(dest->digits, src->digits, n * sizeof(digit_tt))
CopyDigits(M, dest, src, n) ==
    IF n = 0 THEN M
    ELSE IF ~(ValidIdx(M, dest, 0) /\ ValidIdx(M, dest, n - 1)
              /\ ValidIdx(M, src, 0) /\ ValidIdx(M, src, n - 1))
    THEN Fault(M)
    ELSE LET off == M.st[dest].off
             old == M.bufs[M.st[dest].digits].data
         IN [M EXCEPT !.bufs[M.st[dest].digits].data =
                [k \in 1..Len(old) |->
                    IF k > off /\ k <= off + n THEN D(M, src, k - off - 1) ELSE old[k]]]

bigint_mov(M, dest, src) ==
    IF dest = src THEN Ret(M, 0)
    ELSE LET grow == S(M, src).length > S(M, dest).allocated
             rs == IF grow THEN Call("resize", M, <<dest, S(M, src).length>>) ELSE Ret(M, 0)
         IN IF rs.r # 0 THEN Ret(rs.M, -1)
            ELSE Ret(SetLength(Call("CopyDigits", rs.M, <<dest, src, S(M, src).length>>),
                               dest, S(M, src).length), 0)

RECURSIVE clz_loop(_, _, _)
clz_loop(msd, mask, result) ==
    IF mask # 0 /\ BitAnd(mask, msd) = 0 THEN clz_loop(msd, Shr(mask, 1), result + 1)
    ELSE result

clz(M, x) == clz_loop(D(M, x, S(M, x).length - 1), Shl(1, DIGIT_BITS - 1), 0)

RECURSIVE ctz_digit(_, _)
ctz_digit(digit, result) ==
    IF digit % 2 = 0 THEN ctz_digit(Shr(digit, 1), result + 1) ELSE result

RECURSIVE ctz_loop(_, _, _, _)
ctz_loop(M, x, n, result) ==
    IF n < S(M, x).length
    THEN IF D(M, x, n) = 0 THEN ctz_loop(M, x, n + 1, result + DIGIT_BITS)
         ELSE ctz_digit(D(M, x, n), result)
    ELSE result

ctz(M, x) == Call("ctz_loop", M, <<x, 0, 0>>)

RECURSIVE NormalLength(_, _, _)
NormalLength(M, x, length) ==
    IF length # 0 /\ D(M, x, length - 1) = 0 THEN NormalLength(M, x, length - 1)
    ELSE length

normalize(M, x) ==
    IF ~ValidPtr(M, x) THEN Fault(M)
    ELSE LET length == Call("NormalLength", M, <<x, M.st[x].length>>)
         IN [M EXCEPT !.st[x].length = length,
                      !.st[x].negative = IF length = 0 THEN FALSE ELSE @]

----------------------------------------------------------------------------
(* Magnitude core.                                                         *)

\* The borrow loop shared by magnitude_dec and magnitude_delta: decrement
\* the first non-zero digit at index >= j, filling zero digits on the way
\* with DIGIT_MAX.
RECURSIVE Borrow(_, _, _, _)
Borrow(M, x, j, length) ==
    IF j < length
    THEN IF D(M, x, j) # 0 THEN WrD(M, x, j, D(M, x, j) - 1)
         ELSE Borrow(WrD(M, x, j, DIGIT_MAX), x, j + 1, length)
    ELSE M

magnitude_dec(M, x) ==
    LET d0 == (D(M, x, 0) - 1) % Radix
        M1 == WrD(M, x, 0, d0)
        M2 == IF d0 = DIGIT_MAX THEN Call("Borrow", M1, <<x, 1, S(M1, x).length>>) ELSE M1
    IN Ret(Call("normalize", M2, <<x>>), 0)

RECURSIVE magnitude_inc_loop(_, _, _, _)
magnitude_inc_loop(M, x, i, carry) ==
    IF i < S(M, x).length
    THEN LET sum == (D(M, x, i) + carry) % Radix
             c == IF sum < D(M, x, i) THEN 1 ELSE 0
         IN magnitude_inc_loop(WrD(M, x, i, BitAnd(sum, DIGIT_MAX)), x, i + 1, c)
    ELSE Ret(M, carry)

magnitude_inc(M, x) ==
    LET l == Call("magnitude_inc_loop", M, <<x, 0, 1>>)
    IN IF l.r # 0
       THEN LET rs == Call("resize_sum", l.M, <<x, S(l.M, x).length, 1>>)
            IN IF rs.r # 0 THEN Ret(rs.M, -1)
               ELSE Ret(Call("normalize", WrD(rs.M, x, S(rs.M, x).length - 1, l.r),
                             <<x>>), 0)
       ELSE Ret(Call("normalize", l.M, <<x>>), 0)

Sgn3(x, y) == (IF x > y THEN 1 ELSE 0) - (IF x < y THEN 1 ELSE 0)

RECURSIVE magnitude_cmp_loop(_, _, _, _)
magnitude_cmp_loop(M, a, b, index) ==
    LET cmp == Sgn3(D(M, a, index), D(M, b, index))
    IN IF cmp = 0 \/ index = 0 THEN cmp
       ELSE magnitude_cmp_loop(M, a, b, index - 1)

magnitude_cmp(M, a, b) ==
    IF S(M, a).length # 0 /\ S(M, a).length = S(M, b).length
    THEN Call("magnitude_cmp_loop", M, <<a, b, S(M, a).length - 1>>)
    ELSE Sgn3(S(M, a).length, S(M, b).length)

\* One column of magnitude_delta.  The state carries the minuend pointer,
\* which is replaced by a private copy at the first borrow when the
\* destination is not the minuend.
RECURSIVE magnitude_delta_loop(_, _, _, _, _, _, _, _)
magnitude_delta_loop(M, dest, m, s, i, copied_minuend, m_length, s_length) ==
    IF M.fault \/ i >= m_length
    THEN [M |-> M, m |-> m, copied |-> copied_minuend, ok |-> TRUE]
    ELSE IF i < s_length
    THEN IF D(M, m, i) < D(M, s, i)
         THEN LET needcopy == m # dest /\ ~copied_minuend
                  dp == IF needcopy THEN Call("bigint_dup", M, <<m>>) ELSE Ret(M, m)
              IN IF dp.r = NULL
                 THEN [M |-> dp.M, m |-> m, copied |-> copied_minuend, ok |-> FALSE]
                 ELSE LET M1 == Call("Borrow", dp.M, <<dp.r, i + 1, m_length>>)
                          M2 == WrD(M1, dest, i, (D(M1, dp.r, i) - D(M1, s, i)) % Radix)
                      IN magnitude_delta_loop(M2, dest, dp.r, s, i + 1,
                                              copied_minuend \/ needcopy, m_length, s_length)
         ELSE magnitude_delta_loop(
                  WrD(M, dest, i, (D(M, m, i) - D(M, s, i)) % Radix),
                  dest, m, s, i + 1, copied_minuend, m_length, s_length)
    ELSE magnitude_delta_loop(WrD(M, dest, i, D(M, m, i)),
                              dest, m, s, i + 1, copied_minuend, m_length, s_length)

magnitude_delta(M, dest, m, s) ==
    LET m_length == S(M, m).length
        s_length == S(M, s).length
        rs == Call("resize", M, <<dest, m_length>>)
    IN IF rs.r # 0 THEN Ret(rs.M, NULL)
       ELSE LET l == Call("magnitude_delta_loop", rs.M,
                          <<dest, m, s, 0, FALSE, m_length, s_length>>)
            IN IF ~l.ok THEN Ret(l.M, NULL)
               ELSE LET M1 == IF l.copied THEN Call("bigint_free", l.M, <<l.m>>) ELSE l.M
                    IN Ret(Call("normalize", M1, <<dest>>), dest)

MAGNITUDE_RDELTA(M, a, b) == Call("magnitude_delta", M, <<a, a, b>>)

\* Carry out of a column of magnitude_sum where both addends have a digit:
\* sum is the truncated digit, and (sum - carry) is computed as an int.
SumCarryBoth(sum, carry, a_digit) == IF (sum - carry) < a_digit THEN 1 ELSE 0

\* Carry out of a column where only one addend has a digit.
SumCarryOne(sum, digit) == IF sum < digit THEN 1 ELSE 0

RECURSIVE magnitude_sum_loop(_, _, _, _, _, _, _, _, _)
magnitude_sum_loop(M, dest, a, b, offset, carry, a_length, b_length, max_length) ==
    IF offset < max_length
    THEN IF offset >= a_length
         THEN LET sum == (D(M, b, offset) + carry) % Radix
              IN magnitude_sum_loop(WrD(M, dest, offset, sum), dest, a, b, offset + 1,
                     SumCarryOne(sum, D(M, b, offset)), a_length, b_length, max_length)
         ELSE IF offset >= b_length
         THEN LET sum == (D(M, a, offset) + carry) % Radix
              IN magnitude_sum_loop(WrD(M, dest, offset, sum), dest, a, b, offset + 1,
                     SumCarryOne(sum, D(M, a, offset)), a_length, b_length, max_length)
         ELSE LET sum == (D(M, a, offset) + D(M, b, offset) + carry) % Radix
              IN magnitude_sum_loop(WrD(M, dest, offset, sum), dest, a, b, offset + 1,
                     SumCarryBoth(sum, carry, D(M, a, offset)), a_length, b_length, max_length)
    ELSE Ret(M, carry)

magnitude_sum(M, dest, a, b) ==
    LET a_length == S(M, a).length
        b_length == S(M, b).length
        max_length == Max(a_length, b_length)
    IN IF bigint_eqz(M, a) /\ bigint_eqz(M, b)
       THEN Ret(Call("normalize", Call("bigint_movui", M, <<dest, Uintmax(0)>>), <<dest>>), dest)
       ELSE LET rs == Call("resize", M, <<dest, max_length>>)
            IN IF rs.r # 0 THEN Ret(rs.M, NULL)
               ELSE LET l == Call("magnitude_sum_loop", rs.M,
                                  <<dest, a, b, 0, 0, a_length, b_length, max_length>>)
                    IN IF l.r # 0
                       THEN LET r2 == Call("resize_sum", l.M,
                                           <<dest, S(l.M, dest).length, 1>>)
                            IN IF r2.r # 0 THEN Ret(r2.M, NULL)
                               ELSE Ret(Call("normalize", WrD(r2.M, dest, max_length, l.r),
                                             <<dest>>), dest)
                       ELSE Ret(Call("normalize", l.M, <<dest>>), dest)

----------------------------------------------------------------------------
(* Shifts.                                                                 *)

\* memset(x->digits, 0, n * sizeof(digit_tt))
ZeroDigits(M, x, n) ==
    IF n = 0 THEN M
    ELSE IF ~(ValidIdx(M, x, 0) /\ ValidIdx(M, x, n - 1)) THEN Fault(M)
    ELSE LET off == M.st[x].off
             old == M.bufs[M.st[x].digits].data
         IN [M EXCEPT !.bufs[M.st[x].digits].data =
                [k \in 1..Len(old) |-> IF k > off /\ k <= off + n THEN 0 ELSE old[k]]]

\* (lsb << offset | msb >> msb_shift) & DIGIT_MAX
ShlDigit(lsb, msb, offset) ==
    BitAnd(BitOr(Shl(lsb, offset), Shr(msb, DIGIT_BITS - offset)), DIGIT_MAX)

\* A right shift that loses the bits that come down from the next digit.
ShrDigitLost(lsb, msb, offset) == Shr(lsb, offset)

\* DIGIT_MAX & (msb << (DIGIT_BITS - offset) | lsb >> offset)
ShrDigit(lsb, msb, offset) ==
    BitAnd(DIGIT_MAX, BitOr(Shl(msb, DIGIT_BITS - offset), Shr(lsb, offset)))

RECURSIVE shli_aligned_loop(_, _, _, _, _, _)
shli_aligned_loop(M, dest, x, i, original_length, new_digits) ==
    IF ~M.fault /\ i < original_length
    THEN shli_aligned_loop(
             WrD(M, dest, original_length - 1 - i + new_digits,
                 D(M, x, original_length - 1 - i)),
             dest, x, i + 1, original_length, new_digits)
    ELSE M

RECURSIVE shli_unaligned_loop(_, _, _, _, _, _, _)
shli_unaligned_loop(M, dest, x, i, original_length, new_digits, offset) ==
    IF ~M.fault /\ i <= original_length
    THEN LET from == original_length - i
             msb == IF from < 1 THEN 0 ELSE D(M, x, from - 1)
             lsb == IF from >= original_length THEN 0 ELSE D(M, x, from)
         IN shli_unaligned_loop(
                WrD(M, dest, from + new_digits - 1, ShlDigit(lsb, msb, offset)),
                dest, x, i + 1, original_length, new_digits, offset)
    ELSE M

bigint_shli(M, dest0, x, n) ==
    LET dp == IF dest0 = NULL THEN Call("bigint_dup", M, <<x>>) ELSE Ret(M, dest0)
        free_on_error == dest0 = NULL
        dest == dp.r
    IN IF dest = NULL THEN Ret(dp.M, NULL)
       ELSE IF n = 0 \/ bigint_eqz(dp.M, x)
       THEN LET mv == Call("bigint_mov", dp.M, <<dest, x>>)
            IN IF mv.r # 0
               THEN Ret(IF free_on_error THEN Call("bigint_free", mv.M,
                                                   <<dest>>) ELSE mv.M, NULL)
               ELSE Ret(Call("normalize", SetNegative(mv.M, dest, S(mv.M, x).negative),
                             <<dest>>), dest)
       ELSE LET offset == n % DIGIT_BITS
                original_length == S(dp.M, x).length
                new_digits == (n \div DIGIT_BITS) + (IF offset # 0 THEN 1 ELSE 0)
                rs == Call("resize_sum", dp.M, <<dest, original_length, new_digits>>)
            IN IF rs.r # 0
               THEN Ret(IF free_on_error THEN Call("bigint_free", rs.M,
                                                   <<dest>>) ELSE rs.M, NULL)
               ELSE LET M1 == IF offset = 0
                              THEN Call("shli_aligned_loop", rs.M,
                                        <<dest, x, 0, original_length, new_digits>>)
                              ELSE Call("shli_unaligned_loop", rs.M,
                                        <<dest, x, 0, original_length, new_digits, offset>>)
                        M2 == Call("ZeroDigits", M1,
                                   <<dest, new_digits - (IF offset # 0 THEN 1 ELSE 0)>>)
                    IN Ret(Call("normalize", SetNegative(M2, dest, S(M2, x).negative),
                                <<dest>>), dest)

RECURSIVE shri_aligned_loop(_, _, _, _, _)
shri_aligned_loop(M, dest, x, i, shifted_digits) ==
    IF i < S(M, x).length
    THEN LET M1 == FaultIf(M, ~ValidIdx(M, x, i + shifted_digits))
         IN shri_aligned_loop(WrD(M1, dest, i, D(M1, x, i + shifted_digits)),
                              dest, x, i + 1, shifted_digits)
    ELSE M

RECURSIVE shri_unaligned_loop(_, _, _, _, _, _)
shri_unaligned_loop(M, dest, x, i, shifted_digits, offset) ==
    IF i < S(M, x).length
    THEN LET from == shifted_digits + i
             M1 == FaultIf(M, ~ValidIdx(M, x, from - 1))
             lsb == D(M1, x, from - 1)
             msb == IF from < S(M1, x).length THEN D(M1, x, from) ELSE 0
         IN shri_unaligned_loop(WrD(M1, dest, i, ShrDigit(lsb, msb, offset)),
                                dest, x, i + 1, shifted_digits, offset)
    ELSE M

bigint_shri(M, dest0, x, n) ==
    LET dp == IF dest0 = NULL THEN Call("bigint_dup", M, <<x>>) ELSE Ret(M, dest0)
        dest == dp.r
    IN IF dest = NULL THEN Ret(dp.M, NULL)
       ELSE IF n = 0 \/ bigint_eqz(dp.M, x)
       THEN LET mv == Call("bigint_mov", dp.M, <<dest, x>>)
            IN IF mv.r # 0 THEN Ret(mv.M, NULL)
               ELSE Ret(Call("normalize", SetNegative(mv.M, dest, S(mv.M, x).negative),
                             <<dest>>), dest)
       ELSE IF n >= DIGIT_BITS * S(dp.M, x).length
       THEN LET M1 == Call("bigint_movui", dp.M, <<dest, Uintmax(0)>>)
            IN Ret(Call("normalize", SetNegative(M1, dest, S(M1, x).negative),
                        <<dest>>), dest)
       ELSE LET offset == n % DIGIT_BITS
                shifted_digits == (n \div DIGIT_BITS) + (IF offset # 0 THEN 1 ELSE 0)
                M1 == IF offset = 0
                      THEN Call("shri_aligned_loop", dp.M, <<dest, x, 0, shifted_digits>>)
                      ELSE Call("shri_unaligned_loop", dp.M,
                                <<dest, x, 0, shifted_digits, offset>>)
                rs == Call("resize", M1,
                           <<dest, S(M1, x).length - shifted_digits + (IF offset # 0 THEN 1 ELSE 0)>>)
            IN Ret(Call("normalize", SetNegative(rs.M, dest, S(rs.M, x).negative),
                        <<dest>>), dest)

----------------------------------------------------------------------------
(* Comparison, increment, decrement, addition, subtraction.                *)

bigint_cmp(M, a, b) ==
    IF S(M, a).negative = S(M, b).negative
    THEN IF S(M, a).negative THEN -Call("magnitude_cmp", M,
                                        <<a, b>>) ELSE Call("magnitude_cmp", M, <<a, b>>)
    ELSE IF S(M, a).negative THEN -1 ELSE 1

bigint_inc(M, x) ==
    IF bigint_ltz(M, x) THEN Call("magnitude_dec", M, <<x>>) ELSE Call("magnitude_inc", M,
                                                                       <<x>>)

bigint_dec(M, x) ==
    IF bigint_eqz(M, x)
    THEN Ret(SetNegative(WrD(SetLength(M, x, 1), x, 0, 1), x, TRUE), 0)
    ELSE IF bigint_ltz(M, x) THEN Call("magnitude_inc", M,
                                       <<x>>) ELSE Call("magnitude_dec", M, <<x>>)

bigint_add(M, dest0, a, b) ==
    LET dp == IF dest0 = NULL THEN Call("bigint_from_int", M, <<Intmax(0)>>) ELSE Ret(M, dest0)
        free_dest_on_error == dest0 = NULL
        dest == dp.r
    IN IF dest = NULL THEN Ret(dp.M, NULL)
       ELSE LET M0 == dp.M
                cmp == Call("magnitude_cmp", M0, <<a, b>>)
                res ==
                    IF S(M0, a).negative = S(M0, b).negative
                    THEN Call("magnitude_sum", SetNegative(M0, dest, S(M0, a).negative),
                              <<dest, a, b>>)
                    ELSE IF cmp > 0
                    THEN Call("magnitude_delta", SetNegative(M0, dest, S(M0, a).negative),
                              <<dest, a, b>>)
                    ELSE IF cmp < 0
                    THEN Call("magnitude_delta", SetNegative(M0, dest, S(M0, b).negative),
                              <<dest, b, a>>)
                    ELSE Ret(Call("bigint_movui", M0, <<dest, Uintmax(0)>>), dest)
            IN IF res.r = NULL /\ free_dest_on_error
               THEN Ret(Call("bigint_free", res.M, <<dest>>), NULL)
               ELSE res

\* dest->negative = (bool) dest->length
NegativeFromLength(M, dest) == SetNegative(M, dest, S(M, dest).length # 0)

bigint_sub(M, dest0, a, b) ==
    LET dp == IF dest0 # NULL
              THEN Ret(IF dest0 # a /\ dest0 # b THEN Call("bigint_movui", M,
                                                           <<dest0, Uintmax(0)>>) ELSE M, dest0)
              ELSE Call("bigint_from_int", M, <<Intmax(0)>>)
        free_dest_on_error == dest0 = NULL
        dest == dp.r
    IN IF dest = NULL THEN Ret(dp.M, NULL)
       ELSE LET M0 == dp.M
                cmp == Call("magnitude_cmp", M0, <<a, b>>)
                an == S(M0, a).negative
                bn == S(M0, b).negative
                res ==
                    IF ~an /\ ~bn
                    THEN IF cmp >= 0
                         THEN LET d == Call("magnitude_delta", M0, <<dest, a, b>>)
                              IN Ret(SetNegative(d.M, dest, FALSE), d.r)
                         ELSE LET d == Call("magnitude_delta", M0, <<dest, b, a>>)
                              IN Ret(SetNegative(d.M, dest, TRUE), d.r)
                    ELSE IF ~an /\ bn
                    THEN LET d == Call("magnitude_sum", M0, <<dest, a, b>>)
                         IN Ret(SetNegative(d.M, dest, FALSE), d.r)
                    ELSE IF an /\ ~bn
                    THEN LET d == Call("magnitude_sum", M0, <<dest, a, b>>)
                         IN Ret(NegativeFromLength(d.M, dest), d.r)
                    ELSE IF cmp >= 0
                    THEN LET d == Call("magnitude_delta", M0, <<dest, a, b>>)
                         IN Ret(NegativeFromLength(d.M, dest), d.r)
                    ELSE LET d == Call("magnitude_delta", M0, <<dest, b, a>>)
                         IN Ret(SetNegative(d.M, dest, FALSE), d.r)
            IN IF res.r = NULL /\ free_dest_on_error
               THEN Ret(Call("bigint_free", res.M, <<dest>>), NULL)
               ELSE res

----------------------------------------------------------------------------
(* Multiplication.                                                         *)

\* product = dest->digits[i + j] + carry + a_i * b_j, in digit_super_tt.
MulProduct(acc, carry, a_i, b_j) == (acc + carry + a_i * b_j) % (2 ^ SUPER_BITS)

\* A multiplication that loses the carry between digits.
MulCarryLost(product) == 0

\* carry = DIGIT_MAX & (product >> DIGIT_BITS)
MulCarry(product) == BitAnd(DIGIT_MAX, Shr(product, DIGIT_BITS))

\* product = DIGIT_MAX & product
MulLow(product) == BitAnd(DIGIT_MAX, product)

RECURSIVE mul_inner_loop(_, _, _, _, _, _, _, _)
mul_inner_loop(M, dest, a, b, i, j, carry, max_factor_length) ==
    IF ~M.fault /\ j < max_factor_length
    THEN LET a_i == IF i < S(M, a).length THEN D(M, a, i) ELSE 0
             b_j == IF j < S(M, b).length THEN D(M, b, j) ELSE 0
             M1 == FaultIf(M, ~ValidIdx(M, dest, i + j))
             product == MulProduct(D(M1, dest, i + j), carry, a_i, b_j)
             low == MulLow(product)
             M2 == WrD(M1, dest, i + j, low)
             M3 == IF low # 0 /\ i + j + 1 > S(M2, dest).length
                   THEN SetLength(M2, dest, i + j + 1) ELSE M2
         IN mul_inner_loop(M3, dest, a, b, i, j + 1, MulCarry(product), max_factor_length)
    ELSE Ret(M, carry)

RECURSIVE mul_outer_loop(_, _, _, _, _, _)
mul_outer_loop(M, dest, a, b, i, max_factor_length) ==
    IF ~M.fault /\ i < max_factor_length
    THEN LET l == Call("mul_inner_loop", M, <<dest, a, b, i, 0, 0, max_factor_length>>)
             M1 == IF l.r # 0
                   THEN WrD(IF i + max_factor_length + 1 > S(l.M, dest).length
                            THEN SetLength(l.M, dest, i + max_factor_length + 1)
                            ELSE l.M,
                            dest, i + max_factor_length, l.r)
                   ELSE l.M
         IN mul_outer_loop(M1, dest, a, b, i + 1, max_factor_length)
    ELSE M

\* The code at the label "done" of bigint_mul.
mul_done(M, original_dest, dest, a, b) ==
    LET moved == original_dest # NULL /\ dest # original_dest
        M1 == IF moved
              THEN LET Ma == Call("FreeBuf", M,
                                  <<S(M, original_dest).digits, S(M, original_dest).off>>)
                       Mb == IF ValidPtr(Ma, original_dest)
                             THEN [Ma EXCEPT !.st[original_dest] = S(Ma, dest)]
                             ELSE Fault(Ma)
                   IN Call("FreeStruct", Mb, <<dest>>)
              ELSE M
        d == IF moved THEN original_dest ELSE dest
        M2 == SetNegative(M1, d, S(M1, a).negative # S(M1, b).negative)
    IN Ret(Call("normalize", M2, <<d>>), d)

bigint_mul(M, dest0, a, b) ==
    LET original_dest == dest0
        dp == IF dest0 = NULL THEN Call("bigint_from_int", M, <<Intmax(0)>>)
              ELSE IF dest0 = a \/ dest0 = b THEN Call("bigint_dup", M, <<dest0>>)
              ELSE Ret(M, dest0)
        dest == dp.r
        M0 == dp.M
    IN IF dest = NULL THEN Ret(M0, NULL)
       ELSE IF bigint_eqz(M0, a) \/ bigint_eqz(M0, b)
       THEN Ret(SetNegative(SetLength(M0, dest, 0), dest, FALSE), dest)
       ELSE IF S(M0, a).length > 1 /\ Call("bigint_is_power_of_2", M0, <<a>>)
       THEN LET sh == Call("bigint_shli", M0, <<dest, b, Call("ctz", M0, <<a>>)>>)
            IN IF sh.r = NULL THEN Ret(sh.M, NULL)
               ELSE Call("mul_done", sh.M, <<original_dest, dest, a, b>>)
       ELSE IF S(M0, b).length > 1 /\ Call("bigint_is_power_of_2", M0, <<b>>)
       THEN LET sh == Call("bigint_shli", M0, <<dest, a, Call("ctz", M0, <<b>>)>>)
            IN IF sh.r = NULL THEN Ret(sh.M, NULL)
               ELSE Call("mul_done", sh.M, <<original_dest, dest, a, b>>)
       ELSE LET rs == Call("resize_sum", M0, <<dest, S(M0, a).length, S(M0, b).length>>)
            IN IF rs.r # 0 THEN Ret(rs.M, NULL)
               ELSE LET M1 == Call("ZeroDigits", rs.M, <<dest, S(rs.M, dest).allocated>>)
                        max_factor_length == Max(S(M1, a).length, S(M1, b).length)
                        M2 == Call("mul_outer_loop", M1,
                                   <<dest, a, b, 0, max_factor_length>>)
                    IN Call("mul_done", M2, <<original_dest, dest, a, b>>)

----------------------------------------------------------------------------
(* Division.                                                               *)

\* A call of bigint_div returns the quotient pointer in r and leaves the
\* caller's remainder pointer *r in rem.
DivRet(M, q, rem) == [M |-> M, r |-> q, rem |-> rem]

\* The code at the label "error" of bigint_div.
div_error(M, q, free_q_on_failure, intermediate, accumulator, hidden_digits, rem) ==
    LET M1 == IF ValidPtr(M, intermediate)
              THEN [M EXCEPT !.st[intermediate].off = @ - hidden_digits]
              ELSE Fault(M)
        M2 == IF free_q_on_failure THEN Call("bigint_free", M1, <<q>>) ELSE M1
        M3 == IF intermediate # NULL THEN Call("bigint_free", M2, <<intermediate>>) ELSE M2
        M4 == IF accumulator # NULL THEN Call("bigint_free", M3, <<accumulator>>) ELSE M3
    IN DivRet(M4, NULL, rem)

\* The code at the label "set_signs" of bigint_div.
div_set_signs(M, q, has_r, rem, n, d) ==
    LET nneg == S(M, n).negative
        dneg == S(M, d).negative
        M1 == IF nneg /\ dneg
              THEN LET Ma == SetNegative(M, q, FALSE)
                   IN IF has_r /\ bigint_nez(Ma, rem) THEN SetNegative(Ma, rem, TRUE) ELSE Ma
              ELSE IF nneg /\ ~dneg
              THEN LET Ma == IF bigint_nez(M, q) THEN SetNegative(M, q, TRUE) ELSE M
                   IN IF has_r /\ bigint_nez(Ma, rem) THEN SetNegative(Ma, rem, TRUE) ELSE Ma
              ELSE IF ~nneg /\ dneg
              THEN LET Ma == IF bigint_nez(M, q) THEN SetNegative(M, q, TRUE) ELSE M
                   IN IF has_r THEN SetNegative(Ma, rem, FALSE) ELSE Ma
              ELSE M
    IN DivRet(M1, q, rem)

\* if (r) { if (*r) bigint_movui(*r, 0); else *r = bigint_from_int(0); }
div_zero_remainder(M, has_r, rem) ==
    IF ~has_r THEN [M |-> M, rem |-> rem, ok |-> TRUE]
    ELSE IF rem # NULL THEN [M |-> Call("bigint_movui", M,
                                        <<rem, Uintmax(0)>>), rem |-> rem, ok |-> TRUE]
    ELSE LET z == Call("bigint_from_int", M, <<Intmax(0)>>)
         IN [M |-> z.M, rem |-> z.r, ok |-> z.r # NULL]

\* q->digits[q->length - quotient_digits++ - 1] = value
div_put_digit(M, q, quotient_digits, value) ==
    WrD(M, q, S(M, q).length - quotient_digits - 1, value)

\* The inner while loop of the long division: digits of the numerator are
\* pulled down until the intermediate quotient is not below the divisor.
RECURSIVE div_pull_down(_, _, _, _, _, _, _)
div_pull_down(M, q, intermediate, d, hidden_digits, quotient_digits, cmp) ==
    IF M.fault \/ cmp >= 0
    THEN [M |-> M, hidden |-> hidden_digits, qd |-> quotient_digits, complete |-> FALSE]
    ELSE IF hidden_digits = 0
    THEN [M |-> M, hidden |-> hidden_digits, qd |-> quotient_digits, complete |-> TRUE]
    ELSE LET M1 == [M EXCEPT !.st[intermediate].length = @ + 1,
                             !.st[intermediate].off = @ - 1]
             cmp1 == Call("magnitude_cmp", M1, <<intermediate, d>>)
         IN IF cmp1 < 0
            THEN div_pull_down(Call("div_put_digit", M1,
                                    <<q, quotient_digits, 0>>), q, intermediate,
                               d, hidden_digits - 1, quotient_digits + 1, cmp1)
            ELSE div_pull_down(M1, q, intermediate, d, hidden_digits - 1,
                               quotient_digits, cmp1)

\* One pass of the for loop over factor: the divisor is added to the
\* accumulator and the accumulator compared with the intermediate quotient.
div_factor_step(fs, accumulator, intermediate, d, factor) ==
    LET sum == Call("magnitude_sum", fs.M, <<accumulator, accumulator, d>>)
    IN IF sum.r = NULL
       THEN [fs EXCEPT !.M = sum.M, !.stop = TRUE, !.failed = TRUE]
       ELSE LET cmp == Call("magnitude_cmp", sum.M, <<accumulator, intermediate>>)
            IN [M |-> sum.M, stop |-> cmp >= 0 \/ factor = DIGIT_MAX,
                failed |-> FALSE, factor |-> factor, cmp |-> cmp]

\* The passes factor = lo, ..., hi of the for loop, in order, up to the
\* pass that breaks.  The range is halved so that evaluation stays shallow.
RECURSIVE div_factor_loop(_, _, _, _, _, _)
div_factor_loop(fs, accumulator, intermediate, d, lo, hi) ==
    IF fs.stop \/ fs.M.fault THEN fs
    ELSE IF lo = hi THEN Call("div_factor_step", fs, <<accumulator, intermediate, d, lo>>)
    ELSE LET mid == (lo + hi) \div 2
         IN div_factor_loop(
                div_factor_loop(fs, accumulator, intermediate, d, lo, mid),
                accumulator, intermediate, d, mid + 1, hi)

\* The body of the break branch: undo an overshoot, subtract the
\* accumulator from the intermediate quotient, store the quotient digit.
div_take_factor(fs, q, intermediate, accumulator, d, quotient_digits) ==
    LET M1 == IF fs.cmp > 0 THEN Call("MAGNITUDE_RDELTA", fs.M,
                                      <<accumulator, d>>).M ELSE fs.M
        factor == IF fs.cmp > 0 THEN (fs.factor - 1) % Radix ELSE fs.factor
        M2 == Call("MAGNITUDE_RDELTA", M1, <<intermediate, accumulator>>).M
    IN Call("div_put_digit", M2, <<q, quotient_digits, factor>>)

\* The do ... while (hidden_digits) loop of the long division.
RECURSIVE div_long_loop(_, _, _, _, _, _, _)
div_long_loop(M, q, intermediate, accumulator, d, hidden_digits, quotient_digits) ==
    LET pd == Call("div_pull_down", M,
                   <<q, intermediate, d, hidden_digits, quotient_digits, Call("magnitude_cmp", M, <<intermediate, d>>)>>)
    IN IF pd.complete
       THEN [M |-> pd.M, hidden |-> pd.hidden, qd |-> pd.qd, ok |-> TRUE]
       ELSE LET M1 == Call("bigint_movui", pd.M, <<accumulator, Uintmax(0)>>)
                fs == Call("div_factor_loop", [M |-> M1, stop |-> FALSE, failed |-> FALSE,
                           factor |-> 0, cmp |-> -1], <<accumulator, intermediate, d, 1, DIGIT_MAX>>)
            IN IF fs.failed
               THEN [M |-> fs.M, hidden |-> pd.hidden, qd |-> pd.qd, ok |-> FALSE]
               ELSE LET M2 == Call("div_take_factor", fs,
                                   <<q, intermediate, accumulator, d, pd.qd>>)
                    IN IF pd.hidden # 0 /\ ~M2.fault
                       THEN div_long_loop(M2, q, intermediate, accumulator, d,
                                          pd.hidden, pd.qd + 1)
                       ELSE [M |-> M2, hidden |-> pd.hidden, qd |-> pd.qd + 1,
                             ok |-> TRUE]

\* The code at the label "quotient_complete" of bigint_div.
div_quotient_complete(M, q, has_r, rem, intermediate, accumulator, quotient_digits, n, d) ==
    LET M1 == Call("bigint_free", M, <<accumulator>>)
        M2 == IF has_r THEN M1 ELSE Call("bigint_free", M1, <<intermediate>>)
        rem1 == IF has_r THEN intermediate ELSE rem
        sh == Call("bigint_shri", M2,
                   <<q, q, DIGIT_BITS * (S(M2, q).length - quotient_digits)>>)
    IN Call("div_set_signs", SetLength(sh.M, q, quotient_digits), <<q, has_r, rem1, n, d>>)

\* The long division of bigint_div, from the allocation of the accumulator.
div_long(M, q, free_q_on_failure, has_r, rem, n, d) ==
    LET ac == Call("bigint_from_int", M, <<Intmax(0)>>)
        accumulator == ac.r
    IN IF accumulator = NULL
       THEN Call("div_error", ac.M, <<q, free_q_on_failure, NULL, NULL, 0, rem>>)
       ELSE
       LET given == has_r /\ rem # NULL
           mv == IF given THEN Call("bigint_mov", ac.M,
                                    <<rem, n>>) ELSE Call("bigint_dup", ac.M, <<n>>)
           intermediate == IF given THEN rem ELSE mv.r
           failed == IF given THEN mv.r # 0 ELSE mv.r = NULL
       IN IF failed
          THEN Call("div_error", mv.M,
                    <<q, free_q_on_failure, intermediate, accumulator, 0, rem>>)
          ELSE
          LET rs == Call("resize", mv.M, <<q, S(mv.M, n).length>>)
          IN IF rs.r # 0
             THEN Call("div_error", rs.M,
                       <<q, free_q_on_failure, intermediate, accumulator, 0, rem>>)
             ELSE
             LET hidden_digits == S(rs.M, n).length - S(rs.M, d).length
                 M1 == IF ValidPtr(rs.M, intermediate)
                       THEN [rs.M EXCEPT
                               !.st[intermediate].off = @ + hidden_digits,
                               !.st[intermediate].length = S(rs.M, d).length]
                       ELSE Fault(rs.M)
                 l == Call("div_long_loop", M1,
                           <<q, intermediate, accumulator, d, hidden_digits, 0>>)
             IN IF ~l.ok
                THEN Call("div_error", l.M,
                          <<q, free_q_on_failure, intermediate, accumulator, l.hidden, rem>>)
                ELSE Call("div_quotient_complete", l.M,
                          <<q, has_r, rem, intermediate, accumulator, l.qd, n, d>>)

\* bigint_div(q, r, n, d).  has_r says whether r is non-NULL, rem0 is the
\* value of *r at the call.
bigint_div(M, q0, has_r, rem0, n, d) ==
    IF bigint_eqz(M, d) THEN DivRet(SetErrno(M, "EDOM"), NULL, rem0)
    ELSE
    LET qp == IF q0 = NULL THEN Call("bigint_from_int", M, <<Intmax(0)>>) ELSE Ret(M, q0)
        q == qp.r
        free_q_on_failure == q0 = NULL
        M0 == qp.M
    IN IF q = NULL THEN DivRet(M0, NULL, rem0)
       ELSE IF S(M0, d).length = 1 /\ D(M0, d, 0) = 1
       THEN LET z == Call("div_zero_remainder", M0, <<has_r, rem0>>)
            IN IF ~z.ok
               THEN Call("div_error", z.M, <<q, free_q_on_failure, NULL, NULL, 0, z.rem>>)
               ELSE LET mv == Call("bigint_mov", z.M, <<q, n>>)
                    IN IF mv.r # 0
                       THEN Call("div_error", mv.M,
                                 <<q, free_q_on_failure, NULL, NULL, 0, z.rem>>)
                       ELSE Call("div_set_signs", mv.M, <<q, has_r, z.rem, n, d>>)
       ELSE
       LET cmp == Call("magnitude_cmp", M0, <<n, d>>)
       IN IF cmp = 0
          THEN LET z == Call("div_zero_remainder", M0, <<has_r, rem0>>)
               IN IF ~z.ok
                  THEN Call("div_error", z.M,
                            <<q, free_q_on_failure, NULL, NULL, 0, z.rem>>)
                  ELSE Call("div_set_signs", Call("bigint_movui", z.M, <<q, Uintmax(1)>>),
                            <<q, has_r, z.rem, n, d>>)
          ELSE IF cmp < 0
          THEN LET cp == IF ~has_r THEN [M |-> M0, rem |-> rem0, ok |-> TRUE]
                         ELSE IF rem0 # NULL
                         THEN LET mv == Call("bigint_mov", M0, <<rem0, n>>)
                              IN [M |-> mv.M, rem |-> rem0, ok |-> mv.r = 0]
                         ELSE LET dp == Call("bigint_dup", M0, <<n>>)
                              IN [M |-> dp.M, rem |-> dp.r, ok |-> dp.r # NULL]
               IN IF ~cp.ok
                  THEN Call("div_error", cp.M,
                            <<q, free_q_on_failure, NULL, NULL, 0, cp.rem>>)
                  ELSE Call("div_set_signs", Call("bigint_movui", cp.M, <<q, Uintmax(0)>>),
                            <<q, has_r, cp.rem, n, d>>)
          ELSE IF Call("bigint_is_power_of_2", M0, <<d>>)
          THEN LET sh == Call("bigint_shri", M0, <<q, n, Call("ctz", M0, <<d>>)>>)
               IN IF sh.r = NULL
                  THEN Call("div_error", sh.M,
                            <<q, free_q_on_failure, NULL, NULL, 0, rem0>>)
                  ELSE IF ~has_r THEN Call("div_set_signs", sh.M, <<q, has_r, rem0, n, d>>)
                  ELSE IF rem0 # NULL
                  THEN Call("div_set_signs", Call("bigint_movui", sh.M, <<rem0, Uintmax(0)>>),
                            <<q, has_r, rem0, n, d>>)
                  ELSE LET dp == Call("bigint_dup", sh.M, <<n>>)
                       IN IF dp.r = NULL
                          THEN Call("div_error", dp.M,
                                    <<q, free_q_on_failure, NULL, NULL, 0, NULL>>)
                          ELSE Call("div_set_signs", Call("bigint_movui", dp.M,
                                                          <<dp.r, Uintmax(0)>>), <<q, has_r, dp.r, n, d>>)
          ELSE Call("div_long", M0, <<q, free_q_on_failure, has_r, rem0, n, d>>)

\* bigint_mod(r, n, d)
bigint_mod(M, r0, n, d) ==
    LET rp == IF r0 = NULL THEN Call("bigint_from_int", M, <<Intmax(0)>>) ELSE Ret(M, r0)
        free_r_on_error == r0 = NULL
        q == NULL
    IN IF rp.r = NULL THEN Ret(rp.M, NULL)
       ELSE LET dv == Call("bigint_div", rp.M, <<q, TRUE, rp.r, n, d>>)
                M1 == IF dv.r = NULL /\ free_r_on_error THEN Call("bigint_free", dv.M,
                                                                  <<dv.rem>>)
                      ELSE dv.M
                r == IF dv.r = NULL THEN NULL ELSE dv.rem
            IN Ret(Call("bigint_free", M1, <<q>>), r)

----------------------------------------------------------------------------
(* Exponentiation and greatest common divisor.                             *)

\* The code at the label "error" of bigint_pow.
pow_error(M, dest, free_dest_on_error, base, exp) ==
    LET M1 == IF base # NULL THEN Call("bigint_free", M, <<base>>) ELSE M
        M2 == IF free_dest_on_error THEN Call("bigint_free", M1, <<dest>>) ELSE M1
        M3 == IF exp # NULL THEN Call("bigint_free", M2, <<exp>>) ELSE M2
    IN Ret(M3, NULL)

\* A power that is never negative.
pow_done_unsigned(M, dest, negative, base, exp) ==
    Ret(Call("bigint_free", Call("bigint_free", SetNegative(M, dest, FALSE), <<base>>),
             <<exp>>), dest)

\* The code at the label "done" of bigint_pow.
pow_done(M, dest, negative, base, exp) ==
    Ret(Call("bigint_free", Call("bigint_free", SetNegative(M, dest, negative), <<base>>),
             <<exp>>), dest)

\* The while (1) loop of bigint_pow: square and multiply.
RECURSIVE pow_loop(_, _, _, _)
pow_loop(M, dest, base, exp) ==
    LET odd == BitAnd(D(M, exp, 0), 1) # 0
        m == IF odd THEN Call("bigint_mul", M, <<dest, dest, base>>) ELSE Ret(M, dest)
    IN IF M.fault \/ m.r = NULL THEN [M |-> m.M, ok |-> ~M.fault /\ m.r # NULL]
       ELSE LET M1 == Call("bigint_shri", m.M, <<exp, exp, 1>>).M
            IN IF bigint_eqz(M1, exp) THEN [M |-> M1, ok |-> TRUE]
               ELSE LET sq == Call("bigint_mul", M1, <<base, base, base>>)
                    IN IF sq.r = NULL THEN [M |-> sq.M, ok |-> FALSE]
                       ELSE pow_loop(sq.M, dest, base, exp)

bigint_pow(M, dest0, base0, exp0) ==
    LET negative == /\ bigint_nez(M, exp0)
                    /\ bigint_ltz(M, base0)
                    /\ BitAnd(D(M, exp0, 0), 1) # 0
    IN IF bigint_ltz(M, exp0) THEN Ret(SetErrno(M, "EDOM"), NULL)
       ELSE
       LET e == Call("bigint_dup", M, <<exp0>>)
           exp == e.r
       IN IF exp = NULL THEN Call("pow_error", e.M, <<dest0, FALSE, base0, NULL>>)
          ELSE
          LET bs == Call("bigint_dup", e.M, <<base0>>)
              base == bs.r
          IN IF base = NULL THEN Call("pow_error", bs.M, <<dest0, FALSE, NULL, exp>>)
             ELSE
             LET dp == IF dest0 # NULL THEN Ret(Call("bigint_movui", bs.M,
                                                     <<dest0, Uintmax(1)>>), dest0)
                       ELSE Call("bigint_from_int", bs.M, <<Intmax(1)>>)
                 dest == dp.r
                 free_dest_on_error == dest0 = NULL
             IN IF bigint_eqz(dp.M, exp)
                THEN Call("pow_done", Call("bigint_movui", dp.M, <<dest, Uintmax(1)>>),
                          <<dest, negative, base, exp>>)
                ELSE IF bigint_eqz(dp.M, base)
                THEN Call("pow_done", Call("bigint_movui", dp.M, <<dest, Uintmax(0)>>),
                          <<dest, negative, base, exp>>)
                ELSE IF dest = NULL
                THEN Call("pow_error", dp.M, <<dest, free_dest_on_error, base, exp>>)
                ELSE LET l == Call("pow_loop", dp.M, <<dest, base, exp>>)
                     IN IF l.ok THEN Call("pow_done", l.M, <<dest, negative, base, exp>>)
                        ELSE Call("pow_error", l.M, <<dest, free_dest_on_error, base, exp>>)

\* The labels error_after_dest_alloc, error_after_b_dup, error_after_a_dup
\* of bigint_gcd.
gcd_error(M, dest, free_dest_on_error, a, b) ==
    LET M1 == IF free_dest_on_error THEN Call("bigint_free", M, <<dest>>) ELSE M
    IN Ret(Call("bigint_free", Call("bigint_free", M1, <<b>>), <<a>>), NULL)

\* The while (1) loop of bigint_gcd has no bound of its own; the model
\* follows it for at most 2^GcdLoopLog passes and sets spin if it is still
\* running then.
GcdLoopLog == 12

\* One pass of the while (1) loop of bigint_gcd.
gcd_step(gs, dest, common_zeroes) ==
    LET swap == Call("magnitude_cmp", gs.M, <<gs.a, gs.b>>) > 0
        a == IF swap THEN gs.b ELSE gs.a
        b == IF swap THEN gs.a ELSE gs.b
        M1 == Call("MAGNITUDE_RDELTA", gs.M, <<b, a>>).M
    IN IF bigint_eqz(M1, b)
       THEN LET sh == Call("bigint_shli", M1, <<dest, a, common_zeroes>>)
            IN [M |-> sh.M, a |-> a, b |-> b, done |-> TRUE, ok |-> sh.r # NULL]
       ELSE LET sr == Call("bigint_shri", M1, <<b, b, Call("ctz", M1, <<b>>)>>)
            IN [M |-> sr.M, a |-> a, b |-> b, done |-> sr.r = NULL, ok |-> FALSE]

\* Up to 2^k passes of the loop, in order.  The passes are halved so that
\* evaluation stays shallow.
RECURSIVE gcd_loop(_, _, _, _)
gcd_loop(gs, dest, common_zeroes, k) ==
    IF gs.done \/ gs.M.fault THEN gs
    ELSE IF k = 0 THEN Call("gcd_step", gs, <<dest, common_zeroes>>)
    ELSE gcd_loop(gcd_loop(gs, dest, common_zeroes, k - 1), dest, common_zeroes, k - 1)

bigint_gcd(M, dest0, a0, b0) ==
    LET ad == Call("bigint_dup", M, <<a0>>)
        a == ad.r
    IN IF a = NULL THEN Ret(ad.M, NULL)
       ELSE
       LET bd == Call("bigint_dup", ad.M, <<b0>>)
           b == bd.r
       IN IF b = NULL THEN Ret(Call("bigint_free", bd.M, <<a>>), NULL)
          ELSE
          LET dp == IF dest0 = NULL THEN Call("bigint_from_int", bd.M,
                                              <<Intmax(0)>>) ELSE Ret(bd.M, dest0)
              dest == dp.r
              free_dest_on_error == dest0 = NULL
          IN IF dest = NULL THEN Ret(Call("bigint_free", Call("bigint_free", dp.M, <<b>>),
                                          <<a>>), NULL)
             ELSE
             LET M1 == SetNegative(SetNegative(dp.M, a, FALSE), b, FALSE)
                 done(Md) == Ret(Call("bigint_free", Call("bigint_free", Md, <<b>>),
                                      <<a>>), dest)
             IN IF bigint_eqz(M1, a)
                THEN LET mv == Call("bigint_mov", M1, <<dest, b>>)
                     IN IF mv.r # 0 THEN Call("gcd_error", mv.M,
                                              <<dest, free_dest_on_error, a, b>>)
                        ELSE done(mv.M)
                ELSE IF bigint_eqz(M1, b)
                THEN LET mv == Call("bigint_mov", M1, <<dest, a>>)
                     IN IF mv.r # 0 THEN Call("gcd_error", mv.M,
                                              <<dest, free_dest_on_error, a, b>>)
                        ELSE done(mv.M)
                ELSE
                LET a_zeroes == Call("ctz", M1, <<a>>)
                    b_zeroes == Call("ctz", M1, <<b>>)
                    common_zeroes == IF a_zeroes < b_zeroes THEN a_zeroes ELSE b_zeroes
                    sa == Call("bigint_shri", M1, <<a, a, a_zeroes>>)
                IN IF sa.r = NULL THEN Call("gcd_error", sa.M,
                                            <<dest, free_dest_on_error, a, b>>)
                   ELSE LET sb == Call("bigint_shri", sa.M, <<b, b, b_zeroes>>)
                        IN IF sb.r = NULL
                           THEN Call("gcd_error", sb.M, <<dest, free_dest_on_error, a, b>>)
                           ELSE LET l == Call("gcd_loop", [M |-> sb.M, a |-> a, b |-> b,
                                              done |-> FALSE, ok |-> FALSE], <<dest, common_zeroes, GcdLoopLog>>)
                                IN IF l.M.fault THEN done(l.M)
                                   ELSE IF ~l.done
                                   THEN done([l.M EXCEPT !.spin = TRUE])
                                   ELSE IF l.ok THEN done(l.M)
                                   ELSE Call("gcd_error", l.M,
                                             <<dest, free_dest_on_error, a, b>>)

----------------------------------------------------------------------------
(* Logarithm and absolute value.                                           *)

\* The labels error_after_product_alloc (product allocated) and error.
logui_error(M, dest, free_dest_on_error, base_bi, product) ==
    LET M1 == IF product # NULL THEN Call("bigint_free", M, <<product>>) ELSE M
        M2 == Call("bigint_free", M1, <<base_bi>>)
    IN Ret(IF free_dest_on_error THEN Call("bigint_free", M2, <<dest>>) ELSE M2, NULL)

\* for (power = 0; (cmp = magnitude_cmp(x, product)) > 0; power++)
RECURSIVE logui_loop(_, _, _, _, _)
logui_loop(M, x, product, base_bi, power) ==
    LET cmp == Call("magnitude_cmp", M, <<x, product>>)
    IN IF M.fault \/ cmp <= 0 THEN [M |-> M, ok |-> TRUE, cmp |-> cmp, power |-> power]
       ELSE LET m == Call("bigint_mul", M, <<product, product, base_bi>>)
            IN IF m.r = NULL THEN [M |-> m.M, ok |-> FALSE, cmp |-> cmp, power |-> power]
               ELSE logui_loop(m.M, x, product, base_bi, power + 1)

\* for (ratio = 1; base > 2; ratio++) base /= 2;
RECURSIVE logui_ratio(_, _)
logui_ratio(base, ratio) ==
    IF base > 2 THEN logui_ratio(base \div 2, ratio + 1) ELSE ratio

\* The branch for a base that is not a power of two.
logui_search(M, dest, free_dest_on_error, x, base) ==
    LET bb == Call("bigint_from_uint", M, <<Uintmax(base)>>)
    IN IF bb.r = NULL THEN Ret(bb.M, NULL)
       ELSE LET pp == Call("bigint_from_int", bb.M, <<Intmax(1)>>)
            IN IF pp.r = NULL
               THEN Call("logui_error", pp.M, <<dest, free_dest_on_error, bb.r, NULL>>)
               ELSE LET l == Call("logui_loop", pp.M, <<x, pp.r, bb.r, 0>>)
                        inc == IF l.ok /\ l.cmp = 0
                               THEN Call("magnitude_inc", l.M, <<pp.r>>)
                               ELSE Ret(l.M, 0)
                    IN IF ~l.ok \/ inc.r # 0
                       THEN Call("logui_error", inc.M,
                                 <<dest, free_dest_on_error, bb.r, pp.r>>)
                       ELSE LET M1 == Call("bigint_movui", inc.M, <<dest, Uintmax(l.power)>>)
                                M2 == Call("bigint_free", M1, <<pp.r>>)
                            IN Ret(Call("bigint_free", M2, <<bb.r>>), dest)

\* base is the value of the uintmax_t argument, floor_log2 that of the
\* local; neither reaches the limits SIZE_MAX / DIGIT_BITS and INTMAX_MAX.
bigint_logui(M, dest0, x, base) ==
    IF bigint_lez(M, x) \/ base < 2 THEN Ret(SetErrno(M, "EDOM"), NULL)
    ELSE LET d == IF dest0 = NULL THEN Call("bigint_from_int", M, <<Intmax(0)>>)
                  ELSE Ret(M, dest0)
         IN IF POWER_OF_2(base)
            THEN LET floor_log2 == DIGIT_BITS * S(d.M, x).length - clz(d.M, x) - 1
                 IN Call("bigint_from_uint", d.M,
                         <<Uintmax(floor_log2 \div logui_ratio(base, 1))>>)
            ELSE Call("logui_search", d.M, <<d.r, dest0 = NULL, x, base>>)

bigint_abs(M, dest0, x) ==
    LET d == IF dest0 = x THEN Ret(M, dest0)
             ELSE IF dest0 = NULL THEN Call("bigint_dup", M, <<x>>)
             ELSE LET mv == Call("bigint_mov", M, <<dest0, x>>)
                  IN Ret(mv.M, IF mv.r # 0 THEN NULL ELSE dest0)
    IN IF d.r # NULL THEN Ret(SetNegative(d.M, d.r, FALSE), d.r) ELSE d

----------------------------------------------------------------------------
(* Library lifecycle: the small number cache.                              *)

TEN(M) == M.cache[10 + 1]

small_number_cache(M, n) == M.cache[n + 1]

RECURSIVE FreeCachePrefix(_, _, _)
FreeCachePrefix(M, k, n) ==
    IF ~M.fault /\ k < n THEN FreeCachePrefix(Call("bigint_free", M,
                                                   <<small_number_cache(M, k)>>), k + 1, n)
    ELSE M

RECURSIVE bigint_init_loop(_, _)
bigint_init_loop(M, n) ==
    IF n <= SMALL_NUMBER_CACHE_MAX
    THEN LET v == Call("bigint_from_uint", M, <<Uintmax(n)>>)
         IN IF v.r = NULL THEN Ret(Call("FreeCachePrefix", v.M, <<0, n>>), -1)
            ELSE bigint_init_loop([v.M EXCEPT !.cache[n + 1] = v.r], n + 1)
    ELSE Ret([M EXCEPT !.init_done = TRUE], 0)

bigint_init(M) ==
    IF M.init_done THEN Ret(M, 0) ELSE Call("bigint_init_loop", M, <<0>>)

RECURSIVE bigint_cleanup_loop(_, _)
bigint_cleanup_loop(M, n) ==
    IF n <= SMALL_NUMBER_CACHE_MAX
    THEN LET value == small_number_cache(M, n)
         IN bigint_cleanup_loop(
                IF value # NULL
                THEN [Call("bigint_free", M, <<value>>) EXCEPT !.cache[n + 1] = NULL]
                ELSE M, n + 1)
    ELSE M

bigint_cleanup(M) ==
    IF M.init_done THEN Call("bigint_cleanup_loop", M, <<0>>) ELSE M

\* The machine when the process starts: an empty heap, the static cache
\* array zero-initialised, init_done false.  junk is the content of memory
\* that malloc returns; fuel is the number of allocations that succeed.
StartMachine(junk, fuel) ==
    [st |-> <<>>, bufs |-> <<>>, errno |-> "0", fault |-> FALSE,
     spin |-> FALSE, junk |-> junk, fuel |-> fuel,
     cache |-> [n \in 1..(SMALL_NUMBER_CACHE_MAX + 1) |-> NULL],
     init_done |-> FALSE]

----------------------------------------------------------------------------
(* Conversion to machine integers.                                         *)

\* (uintmax_t) digit << (n * DIGIT_BITS) for n * DIGIT_BITS below the width
\* of uintmax_t.
UintmaxShlDigits(digit, n) ==
    [i \in 1..DIGITS_FOR_INTMAX |-> IF i = n + 1 THEN digit ELSE 0]

\* x | y
UintmaxOr(x, y) == [i \in 1..DIGITS_FOR_INTMAX |-> BitOr(x[i], y[i])]

\* A shift by the width of uintmax_t or more is undefined.  The outcomes are
\* those of the two ways the shift is compiled: the count taken modulo the
\* width (a shift instruction that masks its count) or all bits shifted out.
OverShifts == {"wrap", "zero"}

ShlDigitsOver(digit, n, overshift) ==
    IF n < DIGITS_FOR_INTMAX THEN UintmaxShlDigits(digit, n)
    ELSE IF overshift = "wrap" THEN UintmaxShlDigits(digit, n % DIGITS_FOR_INTMAX)
    ELSE UintmaxZero

ToRet(M, done, r) == [M |-> M, done |-> done, r |-> r]

RECURSIVE toui_loop(_, _, _, _, _)
toui_loop(M, x, n, accumulator, previous_accumulator) ==
    IF n < S(M, x).length
    THEN IF D(M, x, n) = 0
         THEN toui_loop(M, x, n + 1, accumulator, previous_accumulator)
         ELSE LET acc == UintmaxOr(accumulator, UintmaxShlDigits(D(M, x, n), n))
              IN IF ~UintmaxLess(previous_accumulator, acc)
                 THEN ToRet(SetErrno(M, "ERANGE"), TRUE, UINTMAX_MAX)
                 ELSE toui_loop(M, x, n + 1, acc, acc)
    ELSE ToRet(M, TRUE, accumulator)

bigint_toui(M, x) ==
    IF S(M, x).negative THEN Ret(SetErrno(M, "ERANGE"), UintmaxZero)
    ELSE IF S(M, x).length > DIGITS_FOR_INTMAX
    THEN Ret(SetErrno(M, "ERANGE"), UINTMAX_MAX)
    ELSE LET l == Call("toui_loop", M, <<x, 0, UintmaxZero, UintmaxZero>>)
         IN Ret(l.M, l.r)

RECURSIVE toi_loop(_, _, _, _, _)
toi_loop(M, x, n, accumulator, overshift) ==
    IF n < S(M, x).length
    THEN LET value == ShlDigitsOver(D(M, x, n), n, overshift)
         IN IF D(M, x, n) # 0 /\ value = UintmaxZero
            THEN ToRet(SetErrno(M, "ERANGE"), TRUE,
                       IF S(M, x).negative THEN INTMAX_MIN ELSE INTMAX_MAX)
            ELSE toi_loop(M, x, n + 1, UintmaxOr(accumulator, value), overshift)
    ELSE ToRet(M, FALSE, accumulator)

\* A conversion that limits the magnitude of a negative value to INTMAX_MAX.
toi_convert_symmetric(M, x, accumulator) ==
    IF UintmaxLess(INTMAX_MAX, accumulator)
    THEN Ret(SetErrno(M, "ERANGE"), IF S(M, x).negative THEN INTMAX_MIN ELSE INTMAX_MAX)
    ELSE Ret(M, IF S(M, x).negative THEN UintmaxNeg(accumulator) ELSE accumulator)

\* The conversions after the loop; accumulator holds the magnitude.
toi_convert(M, x, accumulator) ==
    IF ~S(M, x).negative
    THEN IF UintmaxLess(INTMAX_MAX, accumulator)
         THEN Ret(SetErrno(M, "ERANGE"), INTMAX_MAX)
         ELSE Ret(M, accumulator)
    ELSE IF UintmaxLess(INTMAX_MIN_MAGNITUDE, accumulator)
    THEN Ret(SetErrno(M, "ERANGE"), INTMAX_MIN)
    ELSE IF ~UintmaxLess(INTMAX_MAX, accumulator)
    THEN Ret(M, UintmaxNeg(accumulator))
    ELSE Ret(M, UintmaxSub(UintmaxNeg(INTMAX_MAX), UintmaxSub(accumulator, INTMAX_MAX)))

bigint_toi(M, x, overshift) ==
    LET l == Call("toi_loop", M, <<x, 0, UintmaxZero, overshift>>)
    IN IF l.done THEN Ret(l.M, l.r) ELSE Call("toi_convert", l.M, <<x, l.r>>)

----------------------------------------------------------------------------
(* Text: C strings are sequences of character codes.  A pointer into a     *)
(* string is an index; the terminating NUL is read at index Len + 1.       *)

DecimalDigits == <<"0", "1", "2", "3", "4", "5", "6", "7", "8", "9">>

LowerCase ==
    <<"a", "b", "c", "d", "e", "f", "g", "h", "i", "j", "k", "l", "m",
      "n", "o", "p", "q", "r", "s", "t", "u", "v", "w", "x", "y", "z">>

UpperCase ==
    <<"A", "B", "C", "D", "E", "F", "G", "H", "I", "J", "K", "L", "M",
      "N", "O", "P", "Q", "R", "S", "T", "U", "V", "W", "X", "Y", "Z">>

IndexOf(seq, c) == CHOOSE i \in 1..Len(seq) : seq[i] = c

\* The character code of a character of the execution character set.
Ord(c) ==
    IF \E i \in 1..Len(DecimalDigits) : DecimalDigits[i] = c
    THEN 47 + IndexOf(DecimalDigits, c)
    ELSE IF \E i \in 1..Len(LowerCase) : LowerCase[i] = c
    THEN 96 + IndexOf(LowerCase, c)
    ELSE IF \E i \in 1..Len(UpperCase) : UpperCase[i] = c
    THEN 64 + IndexOf(UpperCase, c)
    ELSE CASE c = "+" -> 43 [] c = "-" -> 45 [] c = "." -> 46 [] c = " " -> 32

\* A string literal, written as a tuple of characters.
Text(lit) == [i \in 1..Len(lit) |-> Ord(lit[i])]

CharAt(str, i) == IF i = Len(str) + 1 THEN 0 ELSE str[i]

strchr(str, from, c) == \E i \in from..Len(str) : str[i] = c

\* The parser's local variables.  str, decimal and eom are indexes into the
\* input, with 0 for a null pointer; failed is set by "goto error".
ParseLocals(M, result) ==
    [M |-> M, str |-> 1, dest |-> result, result |-> result,
     exponent |-> NULL, decimal |-> 0, eom |-> 0, base |-> 10,
     negative |-> FALSE, fraction |-> 0, failed |-> FALSE]

ParseFail(ps, M) == [ps EXCEPT !.M = M, !.failed = TRUE]

strtobif_sign(ps, str) ==
    IF CharAt(str, ps.str) = Ord("+") THEN [ps EXCEPT !.str = @ + 1]
    ELSE IF CharAt(str, ps.str) = Ord("-")
    THEN [ps EXCEPT !.str = @ + 1, !.negative = TRUE]
    ELSE ps

\* A prefix that takes a leading 0 for octal whatever follows.
strtobif_prefix_octal(ps, str) ==
    IF CharAt(str, ps.str) # Ord("0") THEN ps
    ELSE LET c == CharAt(str, ps.str + 1)
         IN IF c = Ord("b") \/ c = Ord("B")
            THEN [ps EXCEPT !.base = 2, !.str = @ + 2]
            ELSE IF c = Ord("o") \/ c = Ord("O")
            THEN [ps EXCEPT !.base = 8, !.str = @ + 2]
            ELSE IF c = Ord("x") \/ c = Ord("X")
            THEN [ps EXCEPT !.base = 16, !.str = @ + 2]
            ELSE [ps EXCEPT !.str = @ + 1, !.base = 8]

strtobif_prefix(ps, str) ==
    IF CharAt(str, ps.str) # Ord("0") THEN ps
    ELSE LET c == CharAt(str, ps.str + 1)
         IN IF c = Ord("b") \/ c = Ord("B")
            THEN [ps EXCEPT !.base = 2, !.str = @ + 2]
            ELSE IF c = Ord("o") \/ c = Ord("O")
            THEN [ps EXCEPT !.base = 8, !.str = @ + 2]
            ELSE IF c = Ord("x") \/ c = Ord("X")
            THEN [ps EXCEPT !.base = 16, !.str = @ + 2]
            ELSE [ps EXCEPT !.str = @ + 1,
                            !.base = IF strchr(str, ps.str + 1, Ord(".")) THEN 10 ELSE 8]

\* dest = dest * base + value
strtobif_accumulate(ps, base, value) ==
    LET ml == Call("bigint_mul", ps.M, <<ps.dest, ps.dest, small_number_cache(ps.M, base)>>)
    IN IF ml.r = NULL THEN ParseFail(ps, ml.M)
       ELSE LET sm == Call("magnitude_sum", ml.M,
                           <<ps.dest, ps.dest, small_number_cache(ml.M, value)>>)
            IN IF sm.r = NULL THEN ParseFail(ps, sm.M)
               ELSE [ps EXCEPT !.M = sm.M]

\* The body of the loop over the characters of the input, for the
\* character c at str; the loop's str++ is included.
strtobif_char(ps, c) ==
    IF ps.base = 10 /\ BitOr(c, 32) = Ord("e")
    THEN IF ps.exponent # NULL THEN ParseFail(ps, SetErrno(ps.M, "EINVAL"))
         ELSE LET ex == Call("bigint_from_int", ps.M, <<Intmax(0)>>)
              IN IF ex.r = NULL THEN ParseFail(ps, ex.M)
                 ELSE [ps EXCEPT !.M = ex.M, !.exponent = ex.r, !.dest = ex.r,
                                 !.eom = IF ps.decimal # 0 THEN ps.str - 1 ELSE @,
                                 !.str = @ + 1]
    ELSE IF ps.base = 10 /\ c = Ord(".")
    THEN IF ps.exponent # NULL \/ ps.decimal # 0
         THEN ParseFail(ps, SetErrno(ps.M, "EINVAL"))
         ELSE [ps EXCEPT !.decimal = ps.str, !.str = @ + 1]
    ELSE IF ~(c >= Ord("0") /\ c <= Ord("9"))
            /\ ~(BitOr(c, 32) >= Ord("a") /\ BitOr(c, 32) <= Ord("z"))
    THEN ParseFail(ps, SetErrno(ps.M, "EINVAL"))
    ELSE LET value == IF c >= Ord("0") /\ c <= Ord("9") THEN c - Ord("0")
                      ELSE BitOr(c, 32) - Ord("a") + 10
         IN IF value >= ps.base THEN ParseFail(ps, SetErrno(ps.M, "EINVAL"))
            ELSE IF ps.decimal = 0 \/ ps.exponent # NULL
            THEN LET acc == Call("strtobif_accumulate", ps, <<ps.base, value>>)
                 IN IF acc.failed THEN acc ELSE [acc EXCEPT !.str = @ + 1]
            ELSE [ps EXCEPT !.str = @ + 1]

RECURSIVE strtobif_loop(_, _)
strtobif_loop(ps, str) ==
    IF ps.M.fault \/ ps.failed \/ CharAt(str, ps.str) = 0 THEN ps
    ELSE strtobif_loop(Call("strtobif_char", ps, <<CharAt(str, ps.str)>>), str)

\* Move the end-of-mantissa marker to the last significant digit after the
\* decimal point.
RECURSIVE strtobif_eom(_, _)
strtobif_eom(str, eom) ==
    IF CharAt(str, eom) = Ord("0") THEN strtobif_eom(str, eom - 1) ELSE eom

\* A parser that shifts no fractional digit into the result.
strtobif_fraction_dropped(ps, str, eom) == ps

\* Shift fractional digits into the result while the exponent is not zero.
RECURSIVE strtobif_fraction_loop(_, _, _)
strtobif_fraction_loop(ps, str, eom) ==
    IF ps.M.fault \/ ps.failed THEN ps
    ELSE IF ~(bigint_nez(ps.M, ps.exponent) /\ ps.decimal <= eom) THEN ps
    ELSE LET dc == Call("bigint_dec", ps.M, <<ps.exponent>>)
         IN IF dc.r # 0 THEN ParseFail(ps, dc.M)
            ELSE LET ml == Call("bigint_mul", dc.M, <<ps.result, ps.result, TEN(dc.M)>>)
                 IN IF ml.r = NULL THEN ParseFail(ps, ml.M)
                    ELSE LET value == CharAt(str, ps.decimal) - Ord("0")
                             sm == Call("magnitude_sum", ml.M,
                                        <<ps.result, ps.result, small_number_cache(ml.M, value)>>)
                         IN IF sm.r = NULL
                            THEN ParseFail([ps EXCEPT !.decimal = @ + 1], sm.M)
                            ELSE strtobif_fraction_loop(
                                     [ps EXCEPT !.M = sm.M, !.decimal = @ + 1],
                                     str, eom)

strtobif_fraction(ps, str, has_fraction) ==
    IF ~(ps.exponent # NULL /\ ps.decimal # 0) THEN ps
    ELSE LET eom == strtobif_eom(str, IF ps.eom = 0 THEN ps.str - 1 ELSE ps.eom)
         IN IF eom = ps.decimal THEN ps
            ELSE LET fl == Call("strtobif_fraction_loop", [ps EXCEPT !.decimal = @ + 1],
                                <<str, eom>>)
                 IN IF fl.failed THEN fl
                    ELSE IF has_fraction /\ fl.decimal # eom
                    THEN [fl EXCEPT !.fraction = fl.decimal]
                    ELSE fl

ParseRet(M, r, fraction) == [M |-> M, r |-> r, fraction |-> fraction]

strtobif_error(ps) ==
    LET M1 == IF ps.exponent # NULL THEN Call("bigint_free", ps.M,
                                              <<ps.exponent>>) ELSE ps.M
    IN ParseRet(Call("bigint_free", M1, <<ps.dest>>), NULL, ps.fraction)

strtobif_finish(ps) ==
    LET M1 == Call("normalize", ps.M, <<ps.result>>)
        ex == IF ps.exponent = NULL THEN [M |-> M1, ok |-> TRUE]
              ELSE LET pw == Call("bigint_pow", M1, <<ps.exponent, TEN(M1), ps.exponent>>)
                   IN IF pw.r = NULL THEN [M |-> pw.M, ok |-> FALSE]
                      ELSE LET ml == Call("bigint_mul", pw.M,
                                          <<ps.result, ps.result, ps.exponent>>)
                           IN IF ml.r = NULL THEN [M |-> ml.M, ok |-> FALSE]
                              ELSE [M |-> Call("bigint_free", ml.M, <<ps.exponent>>),
                                    ok |-> TRUE]
    IN IF ~ex.ok THEN Call("strtobif_error", [ps EXCEPT !.M = ex.M], <<>>)
       ELSE ParseRet(IF bigint_nez(ex.M, ps.result)
                     THEN SetNegative(ex.M, ps.result, ps.negative)
                     ELSE ex.M,
                     ps.result, ps.fraction)

\* has_fraction: the caller passed a non-null fraction pointer.  The
\* fraction field of the result is the index stored through it, 0 if
\* nothing was stored.
bigint_strtobif(M, str, has_fraction) ==
    LET rs == Call("bigint_from_int", M, <<Intmax(0)>>)
    IN IF rs.r = NULL THEN ParseRet(rs.M, NULL, 0)
       ELSE LET p0 == Call("strtobif_prefix", Call("strtobif_sign", ParseLocals(rs.M, rs.r),
                                                   <<str>>), <<str>>)
                p1 == Call("strtobif_loop", p0, <<str>>)
            IN IF p1.failed THEN Call("strtobif_error", p1, <<>>)
               ELSE IF p1.exponent # NULL
                       /\ BitOr(CharAt(str, p1.str - 1), 32) = Ord("e")
               THEN Call("strtobif_error", [p1 EXCEPT !.M = SetErrno(p1.M, "EINVAL")], <<>>)
               ELSE LET p2 == Call("strtobif_fraction", p1, <<str, has_fraction>>)
                    IN IF p2.failed THEN Call("strtobif_error", p2, <<>>)
                       ELSE Call("strtobif_finish", p2, <<>>)

bigint_strtobi(M, str) == Call("bigint_strtobif", M, <<str, FALSE>>)

----------------------------------------------------------------------------
(* Printing.  A character buffer of buflen bytes is a sequence of codes;   *)
(* offset o of the buffer is element o + 1.                                *)

PrintRet(M, r, buf) == [M |-> M, r |-> r, buf |-> buf]

\* The C string in buf: the characters before the first NUL.
strlen(buf) ==
    IF \E i \in 1..Len(buf) : buf[i] = 0
    THEN (CHOOSE i \in 1..Len(buf) : buf[i] = 0 /\ \A j \in 1..(i - 1) : buf[j] # 0) - 1
    ELSE Len(buf)

CString(buf) == SubSeq(buf, 1, strlen(buf))

\* The printer's local variables; cursor and number_start are offsets.
PrintLocals(M, buf) ==
    [M |-> M, buf |-> buf, cursor |-> 0, written |-> 0, accumulator |-> NULL,
     remainder |-> NULL, failed |-> FALSE]

\* Store the characters of text and a NUL at offset o.
strcpy(pr, o, text) ==
    IF o + Len(text) >= Len(pr.buf) THEN [pr EXCEPT !.M = Fault(pr.M)]
    ELSE [pr EXCEPT !.buf = [i \in 1..Len(pr.buf) |->
                                IF i - 1 < o \/ i - 1 > o + Len(text) THEN pr.buf[i]
                                ELSE IF i - 1 = o + Len(text) THEN 0
                                ELSE text[i - o]]]

strcat(pr, text) ==
    IF strlen(pr.buf) = Len(pr.buf) THEN [pr EXCEPT !.M = Fault(pr.M)]
    ELSE Call("strcpy", pr, <<strlen(pr.buf), text>>)

PutChar(pr, o, c) ==
    IF o >= Len(pr.buf) THEN [pr EXCEPT !.M = Fault(pr.M)]
    ELSE [pr EXCEPT !.buf[o + 1] = c % 256]

\* The numerals of value in the given base, at least width of them.
RECURSIVE Numerals(_, _, _)
Numerals(value, base, width) ==
    IF value = 0 /\ width <= 0 THEN <<>>
    ELSE Append(Numerals(value \div base, base, width - 1),
                (IF value % base > 9 THEN Ord("a") - 10 ELSE Ord("0"))
                    + (value % base))

\* sprintf with DIGIT_OCT_TEMPLATE or DIGIT_HEX_TEMPLATE.
sprintf_digit(base, digit) == Numerals(digit, base, IF base = 8 THEN 3 ELSE 2)

Prefix(base, negative) ==
    (IF negative THEN Text(<<"-">>) ELSE <<>>)
        \o Text(<<"0", CASE base = 2 -> "b" [] base = 8 -> "o" [] base = 16 -> "x">>)

\* Base 8 and 16: one sprintf per digit, most significant digit first.
RECURSIVE snbprint_digits_loop(_, _, _, _, _)
snbprint_digits_loop(pr, buflen, x, base, n) ==
    IF pr.M.fault \/ pr.failed \/ n >= S(pr.M, x).length THEN pr
    ELSE LET hexoctbuf == sprintf_digit(base, D(pr.M, x, S(pr.M, x).length - n - 1))
             written == pr.written + Len(hexoctbuf)
         IN IF written + 1 > buflen
            THEN [pr EXCEPT !.M = SetErrno(pr.M, "ERANGE"), !.written = written,
                            !.failed = TRUE]
            ELSE snbprint_digits_loop(
                     Call("strcat", [pr EXCEPT !.written = written], <<hexoctbuf>>),
                     buflen, x, base, n + 1)

\* Trim leading zeroes: the text from the first character after
\* number_start that is not '0' is moved down to number_start.
snbprint_trim(pr, number_start) ==
    IF pr.M.fault \/ pr.failed THEN pr
    ELSE IF pr.buf[number_start + 1] # Ord("0") THEN pr
    ELSE LET from == CHOOSE o \in (number_start + 1)..strlen(pr.buf) :
                         /\ pr.buf[o + 1] # Ord("0")
                         /\ \A k \in (number_start + 1)..(o - 1) :
                                pr.buf[k + 1] = Ord("0")
             end == strlen(pr.buf)
         IN [pr EXCEPT !.buf = [i \in 1..Len(pr.buf) |->
                                   IF i - 1 >= number_start
                                      /\ i - 1 <= number_start + (end - from)
                                   THEN pr.buf[i + (from - number_start)]
                                   ELSE pr.buf[i]]]

\* Base 10 and 2: one numeral per pass, least significant first.
RECURSIVE snbprint_numerals_loop(_, _, _)
snbprint_numerals_loop(pr, buflen, base) ==
    IF pr.M.fault \/ pr.failed THEN pr
    ELSE IF ~bigint_nez(pr.M, pr.accumulator) THEN pr
    ELSE LET st == IF base = 10
                   THEN LET dv == Call("bigint_div", pr.M,
                                       <<pr.accumulator, TRUE, pr.remainder, pr.accumulator, TEN(pr.M)>>)
                        IN IF dv.r = NULL
                           THEN [M |-> dv.M, rem |-> dv.rem, ok |-> FALSE, numeral |-> 0]
                           ELSE [M |-> dv.M, rem |-> dv.rem, ok |-> TRUE,
                                 numeral |-> D(dv.M, dv.rem, 0)]
                   ELSE [M |-> Call("bigint_shri", pr.M,
                                    <<pr.accumulator, pr.accumulator, 1>>).M,
                         rem |-> pr.remainder, ok |-> TRUE,
                         numeral |-> BitAnd(D(pr.M, pr.accumulator, 0), 1)]
             p1 == [pr EXCEPT !.M = st.M, !.remainder = st.rem]
         IN IF ~st.ok THEN [p1 EXCEPT !.failed = TRUE]
            ELSE IF pr.written + 2 > buflen
            THEN [p1 EXCEPT !.M = SetErrno(st.M, "ERANGE"), !.failed = TRUE]
            ELSE snbprint_numerals_loop(
                     Call("PutChar", [p1 EXCEPT !.cursor = @ + 1, !.written = @ + 1],
                          <<pr.cursor, (IF st.numeral > 9 THEN Ord("a") - 10 ELSE Ord("0")) + st.numeral>>),
                     buflen, base)

\* Exchange the characters at offsets first..last end for end.
Reverse(pr, first, last) ==
    [pr EXCEPT !.buf = [i \in 1..Len(pr.buf) |->
                           IF i - 1 >= first /\ i - 1 <= last
                           THEN pr.buf[first + last - (i - 1) + 1]
                           ELSE pr.buf[i]]]

snbprint_error(pr) ==
    LET M1 == IF pr.accumulator # NULL THEN Call("bigint_free", pr.M,
                                                 <<pr.accumulator>>) ELSE pr.M
        M2 == IF pr.remainder # NULL THEN Call("bigint_free", M1, <<pr.remainder>>) ELSE M1
    IN PrintRet(M2, -1, pr.buf)

snbprint_numerals(pr, buflen, x, base) ==
    LET dp == Call("bigint_dup", pr.M, <<x>>)
    IN IF dp.r = NULL THEN Call("snbprint_error", [pr EXCEPT !.M = dp.M], <<>>)
       ELSE LET rm == IF base = 10 THEN Call("bigint_from_int", dp.M,
                                             <<Intmax(0)>>) ELSE Ret(dp.M, NULL)
                p0 == [pr EXCEPT !.M = rm.M, !.accumulator = dp.r, !.remainder = rm.r]
            IN IF base = 10 /\ rm.r = NULL THEN Call("snbprint_error", p0, <<>>)
               ELSE LET p1 == Call("snbprint_numerals_loop", p0, <<buflen, base>>)
                    IN IF p1.failed THEN Call("snbprint_error", p1, <<>>)
                       ELSE LET p2 == Call("PutChar", p1, <<p1.cursor, 0>>)
                                M1 == IF p2.remainder # NULL
                                      THEN Call("bigint_free", p2.M,
                                                <<p2.remainder>>) ELSE p2.M
                                M2 == Call("bigint_free", M1, <<p2.accumulator>>)
                                p3 == Call("Reverse", p2, <<pr.cursor, p2.cursor - 1>>)
                            IN PrintRet(M2, p3.written, p3.buf)

\* buf is the caller's buffer as it is before the call; Len(buf) = buflen.
bigint_snbprint(M, buf, buflen, x, base) ==
    IF base \notin {2, 8, 10, 16} THEN PrintRet(SetErrno(M, "EINVAL"), -1, buf)
    ELSE LET sign == IF S(M, x).negative THEN 1 ELSE 0
             pr == PrintLocals(M, buf)
         IN IF base # 10 /\ buflen < 4 + sign THEN PrintRet(SetErrno(M, "ERANGE"), -1, buf)
            ELSE IF base = 10 /\ buflen < 2 + sign
            THEN PrintRet(SetErrno(M, "ERANGE"), -1, buf)
            ELSE LET p0 == IF base # 10
                           THEN [Call("strcpy", pr, <<0, Prefix(base, S(M, x).negative)>>)
                                    EXCEPT !.written = 2 + sign, !.cursor = 2 + sign]
                           ELSE IF S(M, x).negative
                           THEN [Call("PutChar", pr, <<0, Ord("-")>>)
                                    EXCEPT !.written = 1, !.cursor = 1]
                           ELSE pr
                 IN IF bigint_eqz(M, x)
                    THEN LET z == Call("strcpy", p0, <<p0.cursor, Text(<<"0">>)>>)
                         IN PrintRet(z.M, p0.written + 1, z.buf)
                    ELSE IF base = 8 \/ base = 16
                    THEN LET p1 == Call("snbprint_digits_loop", p0, <<buflen, x, base, 0>>)
                         IN IF p1.failed THEN PrintRet(p1.M, -1, p1.buf)
                            ELSE LET p2 == Call("snbprint_trim", p1, <<p0.cursor>>)
                                 IN PrintRet(p2.M, p2.written, p2.buf)
                    ELSE Call("snbprint_numerals", p0, <<buflen, x, base>>)

bigint_snprint(M, buf, buflen, x) == Call("bigint_snbprint", M, <<buf, buflen, x, 10>>)

\* The result r is 1 when a buffer is returned and NULL otherwise; buf is
\* the content of the buffer.  The new buffer holds what malloc left in it.
bigint_tostrb(M, x, base) ==
    LET bits_in_value == DIGIT_BITS * (IF S(M, x).length # 0 THEN S(M, x).length ELSE 1)
        bits_per_numeral == CASE base = 2 -> 1 [] base = 8 -> 3 [] base = 10 -> 3
                              [] base = 16 -> 4 [] OTHER -> 0
        max_length == (IF S(M, x).negative THEN 1 ELSE 0)
                      + (IF base = 10 THEN 0 ELSE 2)
                      + CEIL_DIV(bits_in_value, bits_per_numeral) + 1
    IN IF bits_per_numeral = 0 THEN PrintRet(SetErrno(M, "EINVAL"), NULL, <<>>)
       ELSE IF AllocFails(M) THEN PrintRet(Tick(M), NULL, <<>>)
       ELSE LET buffer == [i \in 1..max_length |-> M.junk]
                pn == Call("bigint_snbprint", Tick(M), <<buffer, max_length, x, base>>)
            IN IF pn.r < 0 THEN PrintRet(pn.M, NULL, <<>>)
               ELSE PrintRet(pn.M, 1, pn.buf)

\* The caller creates big integers with the values av, bv, dv and dv.
operands(M, av, bv, dv) ==
    LET A == Call("bigint_from_int", M, <<Intmax(av)>>)
        Bb == Call("bigint_from_int", A.M, <<Intmax(bv)>>)
        Dd == Call("bigint_from_int", Bb.M, <<Intmax(dv)>>)
        Ee == Call("bigint_from_int", Dd.M, <<Intmax(dv)>>)
    IN [M |-> Ee.M, a |-> A.r, b |-> Bb.r, d |-> Dd.r, e |-> Ee.r]

\* The caller creates operands of many digits, av * 2^sa and bv * 2^sb, with
\* bigint_shli, and two big integers d and e of value 0 that it may pass as
\* destinations.
long_operands(M, av, sa, bv, sb) ==
    LET o == Call("operands", M, <<av, bv, 0>>)
        A == Call("bigint_shli", o.M, <<NULL, o.a, sa>>)
        Bb == Call("bigint_shli", A.M, <<NULL, o.b, sb>>)
    IN [M |-> Bb.M, a |-> A.r, b |-> Bb.r, d |-> o.d, e |-> o.e]

\* M with v in every digit slot at an index >= length of every allocated
\* big integer, and with v as the content of storage that malloc returns
\* from now on.
Restale(M, v) ==
    LET owner(b) == {p \in DOMAIN M.st : M.st[p].live /\ M.st[p].digits = b}
        refill(b) ==
            LET s == M.st[CHOOSE p \in owner(b) : TRUE]
            IN [i \in DOMAIN M.bufs[b].data |->
                    IF i - 1 - s.off >= s.length THEN v ELSE M.bufs[b].data[i]]
    IN [M EXCEPT !.junk = v,
                 !.bufs = [b \in DOMAIN M.bufs |->
                              IF M.bufs[b].live /\ owner(b) # {}
                              THEN [M.bufs[b] EXCEPT !.data = refill(b)]
                              ELSE M.bufs[b]]]

\* Two executions of the call fn(args): one from M, one from the machine
\* that differs from M only in the storage beyond the lengths.
stale_twin(M, fn, args, v) ==
    [M |-> M, first |-> Call(fn, M, args), second |-> Call(fn, Restale(M, v), args)]

\* A call of a function or of a step of one: the callee is named by fn, M is
\* its first argument and a holds the remaining arguments in order.
Call(fn, M, a) ==
  CASE fn = "MallocStruct" -> MallocStruct(M)
    [] fn = "safe_calloc" -> safe_calloc(M, a[1])
    [] fn = "FreeBuf" -> FreeBuf(M, a[1], a[2])
    [] fn = "FreeStruct" -> FreeStruct(M, a[1])
    [] fn = "bigint_free" -> bigint_free(M, a[1])
    [] fn = "resize" -> resize(M, a[1], a[2])
    [] fn = "resize_sum" -> resize_sum(M, a[1], a[2], a[3])
    [] fn = "is_power_of_2_loop" -> is_power_of_2_loop(M, a[1], a[2])
    [] fn = "bigint_is_power_of_2" -> bigint_is_power_of_2(M, a[1])
    [] fn = "StoreMagnitude" -> StoreMagnitude(M, a[1], a[2], a[3])
    [] fn = "bigint_movui" -> bigint_movui(M, a[1], a[2])
    [] fn = "bigint_movi" -> bigint_movi(M, a[1], a[2])
    [] fn = "bigint_from_uint" -> bigint_from_uint(M, a[1])
    [] fn = "bigint_from_int" -> bigint_from_int(M, a[1])
    [] fn = "bigint_dup" -> bigint_dup(M, a[1])
    [] fn = "CopyDigits" -> CopyDigits(M, a[1], a[2], a[3])
    [] fn = "bigint_mov" -> bigint_mov(M, a[1], a[2])
    [] fn = "clz" -> clz(M, a[1])
    [] fn = "ctz_loop" -> ctz_loop(M, a[1], a[2], a[3])
    [] fn = "ctz" -> ctz(M, a[1])
    [] fn = "NormalLength" -> NormalLength(M, a[1], a[2])
    [] fn = "normalize" -> normalize(M, a[1])
    [] fn = "Borrow" -> Borrow(M, a[1], a[2], a[3])
    [] fn = "magnitude_dec" -> magnitude_dec(M, a[1])
    [] fn = "magnitude_inc_loop" -> magnitude_inc_loop(M, a[1], a[2], a[3])
    [] fn = "magnitude_inc" -> magnitude_inc(M, a[1])
    [] fn = "magnitude_cmp_loop" -> magnitude_cmp_loop(M, a[1], a[2], a[3])
    [] fn = "magnitude_cmp" -> magnitude_cmp(M, a[1], a[2])
    [] fn = "magnitude_delta_loop" -> magnitude_delta_loop(M, a[1], a[2], a[3], a[4], a[5], a[6], a[7])
    [] fn = "magnitude_delta" -> magnitude_delta(M, a[1], a[2], a[3])
    [] fn = "MAGNITUDE_RDELTA" -> MAGNITUDE_RDELTA(M, a[1], a[2])
    [] fn = "magnitude_sum_loop" -> magnitude_sum_loop(M, a[1], a[2], a[3], a[4], a[5], a[6], a[7], a[8])
    [] fn = "magnitude_sum" -> magnitude_sum(M, a[1], a[2], a[3])
    [] fn = "ZeroDigits" -> ZeroDigits(M, a[1], a[2])
    [] fn = "shli_aligned_loop" -> shli_aligned_loop(M, a[1], a[2], a[3], a[4], a[5])
    [] fn = "shli_unaligned_loop" -> shli_unaligned_loop(M, a[1], a[2], a[3], a[4], a[5], a[6])
    [] fn = "bigint_shli" -> bigint_shli(M, a[1], a[2], a[3])
    [] fn = "shri_aligned_loop" -> shri_aligned_loop(M, a[1], a[2], a[3], a[4])
    [] fn = "shri_unaligned_loop" -> shri_unaligned_loop(M, a[1], a[2], a[3], a[4], a[5])
    [] fn = "bigint_shri" -> bigint_shri(M, a[1], a[2], a[3])
    [] fn = "bigint_cmp" -> bigint_cmp(M, a[1], a[2])
    [] fn = "bigint_inc" -> bigint_inc(M, a[1])
    [] fn = "bigint_dec" -> bigint_dec(M, a[1])
    [] fn = "bigint_add" -> bigint_add(M, a[1], a[2], a[3])
    [] fn = "bigint_sub" -> bigint_sub(M, a[1], a[2], a[3])
    [] fn = "mul_inner_loop" -> mul_inner_loop(M, a[1], a[2], a[3], a[4], a[5], a[6], a[7])
    [] fn = "mul_outer_loop" -> mul_outer_loop(M, a[1], a[2], a[3], a[4], a[5])
    [] fn = "mul_done" -> mul_done(M, a[1], a[2], a[3], a[4])
    [] fn = "bigint_mul" -> bigint_mul(M, a[1], a[2], a[3])
    [] fn = "div_error" -> div_error(M, a[1], a[2], a[3], a[4], a[5], a[6])
    [] fn = "div_set_signs" -> div_set_signs(M, a[1], a[2], a[3], a[4], a[5])
    [] fn = "div_zero_remainder" -> div_zero_remainder(M, a[1], a[2])
    [] fn = "div_put_digit" -> div_put_digit(M, a[1], a[2], a[3])
    [] fn = "div_pull_down" -> div_pull_down(M, a[1], a[2], a[3], a[4], a[5], a[6])
    [] fn = "div_factor_step" -> div_factor_step(M, a[1], a[2], a[3], a[4])
    [] fn = "div_factor_loop" -> div_factor_loop(M, a[1], a[2], a[3], a[4], a[5])
    [] fn = "div_take_factor" -> div_take_factor(M, a[1], a[2], a[3], a[4], a[5])
    [] fn = "div_long_loop" -> div_long_loop(M, a[1], a[2], a[3], a[4], a[5], a[6])
    [] fn = "div_quotient_complete" -> div_quotient_complete(M, a[1], a[2], a[3], a[4], a[5], a[6], a[7], a[8])
    [] fn = "div_long" -> div_long(M, a[1], a[2], a[3], a[4], a[5], a[6])
    [] fn = "bigint_div" -> bigint_div(M, a[1], a[2], a[3], a[4], a[5])
    [] fn = "bigint_mod" -> bigint_mod(M, a[1], a[2], a[3])
    [] fn = "pow_error" -> pow_error(M, a[1], a[2], a[3], a[4])
    [] fn = "pow_done_unsigned" -> pow_done_unsigned(M, a[1], a[2], a[3], a[4])
    [] fn = "pow_done" -> pow_done(M, a[1], a[2], a[3], a[4])
    [] fn = "pow_loop" -> pow_loop(M, a[1], a[2], a[3])
    [] fn = "bigint_pow" -> bigint_pow(M, a[1], a[2], a[3])
    [] fn = "gcd_error" -> gcd_error(M, a[1], a[2], a[3], a[4])
    [] fn = "gcd_step" -> gcd_step(M, a[1], a[2])
    [] fn = "gcd_loop" -> gcd_loop(M, a[1], a[2], a[3])
    [] fn = "bigint_gcd" -> bigint_gcd(M, a[1], a[2], a[3])
    [] fn = "FreeCachePrefix" -> FreeCachePrefix(M, a[1], a[2])
    [] fn = "bigint_init_loop" -> bigint_init_loop(M, a[1])
    [] fn = "bigint_init" -> bigint_init(M)
    [] fn = "bigint_cleanup_loop" -> bigint_cleanup_loop(M, a[1])
    [] fn = "bigint_cleanup" -> bigint_cleanup(M)
    [] fn = "strtobif_sign" -> strtobif_sign(M, a[1])
    [] fn = "strtobif_prefix" -> strtobif_prefix(M, a[1])
    [] fn = "strtobif_accumulate" -> strtobif_accumulate(M, a[1], a[2])
    [] fn = "strtobif_char" -> strtobif_char(M, a[1])
    [] fn = "strtobif_loop" -> strtobif_loop(M, a[1])
    [] fn = "strtobif_fraction_dropped" -> strtobif_fraction_dropped(M, a[1], a[2])
    [] fn = "strtobif_fraction_loop" -> strtobif_fraction_loop(M, a[1], a[2])
    [] fn = "strtobif_fraction" -> strtobif_fraction(M, a[1], a[2])
    [] fn = "strtobif_error" -> strtobif_error(M)
    [] fn = "strtobif_finish" -> strtobif_finish(M)
    [] fn = "bigint_strtobif" -> bigint_strtobif(M, a[1], a[2])
    [] fn = "bigint_strtobi" -> bigint_strtobi(M, a[1])
    [] fn = "strcpy" -> strcpy(M, a[1], a[2])
    [] fn = "strcat" -> strcat(M, a[1])
    [] fn = "PutChar" -> PutChar(M, a[1], a[2])
    [] fn = "snbprint_digits_loop" -> snbprint_digits_loop(M, a[1], a[2], a[3], a[4])
    [] fn = "snbprint_trim" -> snbprint_trim(M, a[1])
    [] fn = "snbprint_numerals_loop" -> snbprint_numerals_loop(M, a[1], a[2])
    [] fn = "Reverse" -> Reverse(M, a[1], a[2])
    [] fn = "snbprint_error" -> snbprint_error(M)
    [] fn = "snbprint_numerals" -> snbprint_numerals(M, a[1], a[2], a[3])
    [] fn = "bigint_snbprint" -> bigint_snbprint(M, a[1], a[2], a[3], a[4])
    [] fn = "bigint_snprint" -> bigint_snprint(M, a[1], a[2], a[3])
    [] fn = "bigint_tostrb" -> bigint_tostrb(M, a[1], a[2])
    [] fn = "operands" -> operands(M, a[1], a[2], a[3])
    [] fn = "long_operands" -> long_operands(M, a[1], a[2], a[3], a[4])
    [] fn = "stale_twin" -> stale_twin(M, a[1], a[2], a[3])
    [] fn = "logui_error" -> logui_error(M, a[1], a[2], a[3], a[4])
    [] fn = "logui_loop" -> logui_loop(M, a[1], a[2], a[3], a[4])
    [] fn = "logui_search" -> logui_search(M, a[1], a[2], a[3], a[4])
    [] fn = "bigint_logui" -> bigint_logui(M, a[1], a[2], a[3])
    [] fn = "bigint_abs" -> bigint_abs(M, a[1], a[2])
    [] fn = "toui_loop" -> toui_loop(M, a[1], a[2], a[3], a[4])
    [] fn = "bigint_toui" -> bigint_toui(M, a[1])
    [] fn = "toi_loop" -> toi_loop(M, a[1], a[2], a[3], a[4])
    [] fn = "toi_convert" -> toi_convert(M, a[1], a[2])
    [] fn = "bigint_toi" -> bigint_toi(M, a[1], a[2])

----------------------------------------------------------------------------
(* The mathematical value of a big integer.                                *)

\* Values are compared as integers below 2^31: a big integer of up to
\* four digits whose fourth digit is below 128.
MaxValue == (2 ^ 30 - 1) * 2 + 1

Fits(M, x) ==
    \/ S(M, x).length < 4
    \/ /\ S(M, x).length = 4
       /\ D(M, x, 3) < 128

RECURSIVE MagnitudeOf(_, _, _)
MagnitudeOf(M, x, n) ==
    IF n = 0 THEN 0 ELSE D(M, x, n - 1) * (Radix ^ (n - 1)) + MagnitudeOf(M, x, n - 1)

Mag(M, x) == MagnitudeOf(M, x, S(M, x).length)

Val(M, x) == IF S(M, x).negative THEN -Mag(M, x) ELSE Mag(M, x)

\* The big integer x has the integer value v.
ValIs(M, x, v) == Fits(M, x) /\ Val(M, x) = v

\* Invariants N1 and N2 of the data model.
Normalized(M, x) ==
    /\ S(M, x).length = 0 \/ D(M, x, S(M, x).length - 1) # 0
    /\ S(M, x).length = 0 => ~S(M, x).negative

\* The call returned a live big integer and no invalid access happened.
Succeeded(M, r) == r # NULL /\ ValidPtr(M, r) /\ ~M.fault

----------------------------------------------------------------------------
(* The caller.  A run starts with the library initialised; the caller      *)
(* builds its operands with bigint_from_int and then makes one public call. *)

\* Contents of memory that malloc has not initialised.
JunkDigits == {0, 165}

\* Operand magnitudes: zero, single digits, digit boundaries, multi-digit
\* powers of two, values with interior zero digits.
Magnitudes ==
    {0, 1, 2, 3, 128, 255, 256, 257, 511, 32768, 65535, 65536, 65537,
     16711680, 16777215}

OperandValues == Magnitudes \cup {-m : m \in Magnitudes}

\* Values a caller-supplied destination holds before the call.
DestValues == {0, -3, 66051}


Sign(x) == IF x < 0 THEN -1 ELSE IF x > 0 THEN 1 ELSE 0

\* |x| * |y| stays below 2^31.
ProductFits(x, y) == IF y = 0 THEN TRUE ELSE Abs(x) <= MaxValue \div Abs(y)

NoCall ==
    [op |-> "none", dest |-> NULL, a |-> NULL, b |-> NULL, d |-> NULL,
     e |-> NULL, n |-> 0, has_r |-> FALSE, rem |-> NULL, base |-> 0,
     text |-> <<>>, via |-> "none", word |-> UintmaxZero, pool |-> {},
     args |-> <<>>]

NoRet ==
    [p |-> NULL, rem |-> NULL, n |-> 0, text |-> <<>>, word |-> UintmaxZero,
     digits |-> <<>>, twin |-> <<>>]

Init ==
    /\ \E j \in JunkDigits : mem = Call("bigint_init", StartMachine(j, -1), <<>>).M
    /\ pre = mem
    /\ call = NoCall
    /\ ret = NoRet
    /\ pc = "start"

\* The caller creates the operands a and b and two big integers d and e
\* that it may pass as destinations, both holding the value dv.
Start(o, n) ==
    /\ mem' = o.M
    /\ pre' = o.M
    /\ call' = [NoCall EXCEPT !.a = o.a, !.b = o.b, !.d = o.d, !.e = o.e, !.n = n]
    /\ ret' = NoRet
    /\ pc' = "ready"

Operands(AV, BV, DV, NV) ==
    /\ pc = "start"
    /\ \E av \in AV, bv \in BV, dv \in DV, n \in NV :
          Start(Call("operands", mem, <<av, bv, dv>>), n)

\* A call that returns a big integer pointer.
Finish(res, op, dest) ==
    /\ mem' = res.M
    /\ pre' = mem
    /\ call' = [call EXCEPT !.op = op, !.dest = dest]
    /\ ret' = [NoRet EXCEPT !.p = res.r]
    /\ pc' = "done"

Done(op) == pc = "done" /\ call.op = op

\* The values of the operands when the call was made.
AVal == Val(pre, call.a)
BVal == Val(pre, call.b)

----------------------------------------------------------------------------
(* Addition, subtraction and multiplication.                               *)

ArithOperands == Operands(OperandValues, OperandValues, DestValues, {0})

Add ==
    /\ pc = "ready"
    /\ \E dest \in {NULL, call.d, call.a, call.b} :
          Finish(Call("bigint_add", mem, <<dest, call.a, call.b>>), "add", dest)

Sub ==
    /\ pc = "ready"
    /\ \E dest \in {NULL, call.d, call.a, call.b} :
          Finish(Call("bigint_sub", mem, <<dest, call.a, call.b>>), "sub", dest)

Mul ==
    /\ pc = "ready"
    /\ ProductFits(Val(mem, call.a), Val(mem, call.b))
    /\ \E dest \in {NULL, call.d} :
          Finish(Call("bigint_mul", mem, <<dest, call.a, call.b>>), "mul", dest)

\* A call of bigint_mul whose destination is one of its operands; y is the
\* second operand of the call.
FinishInPlace(res, dest, y) ==
    /\ mem' = res.M
    /\ pre' = mem
    /\ call' = [call EXCEPT !.op = "mul_in_place", !.dest = dest, !.b = y]
    /\ ret' = [NoRet EXCEPT !.p = res.r]
    /\ pc' = "done"

\* dest = a, dest = b, or dest = a = b.
MulInPlace ==
    /\ pc = "ready"
    /\ \E dy \in {<<call.a, call.b>>, <<call.b, call.b>>, <<call.a, call.a>>} :
          /\ ProductFits(Val(mem, call.a), Val(mem, dy[2]))
          /\ FinishInPlace(Call("bigint_mul", mem, <<dy[1], call.a, dy[2]>>), dy[1], dy[2])

Next == ArithOperands \/ Add \/ Sub \/ Mul \/ MulInPlace

Spec == Init /\ [][Next]_vars

AddSubExact ==
    /\ Done("add") =>
          /\ Succeeded(mem, ret.p)
          /\ ValIs(mem, ret.p, AVal + BVal)
          /\ Normalized(mem, ret.p)
    /\ Done("sub") =>
          /\ Succeeded(mem, ret.p)
          /\ ValIs(mem, ret.p, AVal - BVal)
          /\ Normalized(mem, ret.p)

\* C12: bigint_mul with dest identical to a and/or b returns dest and leaves
\* in it the product of the original operand values, sign included, which is
\* what a call with a separate destination produces.
MulInPlaceExact ==
    Done("mul_in_place") =>
        /\ ret.p = call.dest
        /\ Succeeded(mem, call.dest)
        /\ ValIs(mem, call.dest, AVal * BVal)
        /\ Normalized(mem, call.dest)

----------------------------------------------------------------------------
(* Shifts.                                                                 *)

\* Largest shift count the caller passes.
MaxShift == 25

ShiftOperands == Operands(OperandValues, {0}, DestValues, 0..MaxShift)

Shli ==
    /\ pc = "ready"
    /\ ProductFits(Val(mem, call.a), 2 ^ call.n)
    /\ \E dest \in {NULL, call.d, call.a} :
          Finish(Call("bigint_shli", mem, <<dest, call.a, call.n>>), "shli", dest)

Shri ==
    /\ pc = "ready"
    /\ \E dest \in {NULL, call.d, call.a} :
          Finish(Call("bigint_shri", mem, <<dest, call.a, call.n>>), "shri", dest)

NextShift == ShiftOperands \/ Shli \/ Shri

SpecShift == Init /\ [][NextShift]_vars

\* C9: bigint_shli returns x * 2^k with x's sign; bigint_shri returns the
\* value of magnitude floor(|x| / 2^k) with x's sign, a non-negative zero
\* when the magnitude becomes 0; the same for dest = x as for dest = NULL.
ShiftExact ==
    /\ Done("shli") =>
          /\ Succeeded(mem, ret.p)
          /\ ValIs(mem, ret.p, AVal * (2 ^ call.n))
          /\ Normalized(mem, ret.p)
    /\ Done("shri") =>
          /\ Succeeded(mem, ret.p)
          /\ ValIs(mem, ret.p, Sign(AVal) * (Abs(AVal) \div (2 ^ call.n)))
          /\ Normalized(mem, ret.p)

\* An unaligned right shift in place that crosses a digit boundary.
ShiftExactWitness ==
    /\ Done("shri")
    /\ call.dest = call.a
    /\ AVal = -16711680
    /\ call.n = 13
    /\ Val(mem, ret.p) = -2040

----------------------------------------------------------------------------
(* Exponentiation.                                                         *)

\* Largest exponent the caller passes.
MaxExp == 31

PowBases == {0, 1, -1, 2, -2, 3, -3, 10, -10, 16, -16, 255, -255, 256, -257, 46340}

\* m^e for m >= 0, or -1 when it does not stay below 2^31.
RECURSIVE PowerMag(_, _)
PowerMag(m, e) ==
    IF e <= 0 THEN 1
    ELSE LET p == PowerMag(m, e - 1)
         IN IF p = -1 \/ ~ProductFits(p, m) THEN -1 ELSE p * m

\* b^e for e >= 0.
Power(b, e) == (IF b < 0 /\ e % 2 = 1 THEN -1 ELSE 1) * PowerMag(Abs(b), e)

PowOperands == Operands(PowBases, -2..MaxExp, DestValues, {0})

Pow ==
    /\ pc = "ready"
    /\ PowerMag(Abs(Val(mem, call.a)), Val(mem, call.b)) # -1
    /\ \E dest \in {NULL, call.d, call.a} :
          Finish(Call("bigint_pow", mem, <<dest, call.a, call.b>>), "pow", dest)

NextPow == PowOperands \/ Pow

SpecPow == Init /\ [][NextPow]_vars

----------------------------------------------------------------------------
(* Greatest common divisor.                                                *)

GcdValues ==
    {0, 1, -1, 2, 6, -12, 255, 256, -768, 1071, 462, 65535, -65536, 65537,
     196608, 16711680, -16777215}

RECURSIVE Euclid(_, _)
Euclid(x, y) == IF y = 0 THEN x ELSE Euclid(y, x % y)

GcdOperands == Operands(GcdValues, GcdValues, DestValues, {0})

Gcd ==
    /\ pc = "ready"
    /\ \E dest \in {NULL, call.d} :
          Finish(Call("bigint_gcd", mem, <<dest, call.a, call.b>>), "gcd", dest)

NextGcd == GcdOperands \/ Gcd

SpecGcd == Init /\ [][NextGcd]_vars

\* The big integer x is the same object with the same value in M1 and M2.
Unchanged(M1, M2, x) ==
    /\ S(M1, x) = S(M2, x)
    /\ B(M1, S(M1, x).digits) = B(M2, S(M2, x).digits)

\* C10: bigint_gcd, with dest NULL or a caller-supplied big integer of any
\* prior value and sign, returns the non-negative greatest common divisor
\* of a and b, gcd(a, 0) = |a|, gcd(0, b) = |b|, gcd(0, 0) = 0, and leaves
\* a and b unchanged.
GcdExact ==
    Done("gcd") =>
        /\ Succeeded(mem, ret.p)
        /\ ValIs(mem, ret.p, Euclid(Abs(AVal), Abs(BVal)))
        /\ ~S(mem, ret.p).negative
        /\ ~mem.spin
        /\ Unchanged(pre, mem, call.a)
        /\ Unchanged(pre, mem, call.b)

----------------------------------------------------------------------------
(* Division and modulo.                                                    *)

\* Numerators: single- and multi-digit values, values with interior zero
\* digits (1792 = 0x0700, 458757 = 0x070005), both signs.
Numerators ==
    {0, 1, 3, 7, -7, 10, 100, -105, 255, 256, -1010, 1792, 65535, -65536,
     458757, -458757, 16777215}

\* Denominators: zero, one, powers of two, single- and multi-digit values.
Denominators == {0, 1, -1, 2, -2, 5, 7, -7, 10, 255, 256, -257, 65536, 65537}

DivOperands == Operands(Numerators, Denominators, DestValues, {0})

\* bigint_div with q absent or caller-supplied and r absent, pointing to a
\* NULL pointer, or pointing to a caller-supplied big integer.
FinishDiv(res, q, has_r, rem) ==
    /\ mem' = res.M
    /\ pre' = mem
    /\ call' = [call EXCEPT !.op = "div", !.dest = q, !.has_r = has_r, !.rem = rem]
    /\ ret' = [NoRet EXCEPT !.p = res.r, !.rem = res.rem]
    /\ pc' = "done"

Div ==
    /\ pc = "ready"
    /\ \E q \in {NULL, call.d}, has_r \in BOOLEAN, rem \in {NULL, call.e} :
          /\ rem # NULL => has_r
          /\ FinishDiv(Call("bigint_div", mem, <<q, has_r, rem, call.a, call.b>>),
                       q, has_r, rem)

Mod ==
    /\ pc = "ready"
    /\ \E r \in {NULL, call.e} :
          Finish(Call("bigint_mod", mem, <<r, call.a, call.b>>), "mod", r)

NextDiv == DivOperands \/ Div \/ Mod

SpecDiv == Init /\ [][NextDiv]_vars

\* Quotient and remainder of the division that truncates toward zero.
TruncQuot(n, d) == Sign(n) * Sign(d) * (Abs(n) \div Abs(d))
TruncRem(n, d) == Sign(n) * (Abs(n) % Abs(d))

\* C1: for d # 0, bigint_div with q and *r each absent or a caller-supplied
\* big integer of any prior value yields q and r with n = q*d + r,
\* |r| < |d|, r zero or of the sign of n, q zero or of sign sign(n)*sign(d).
DivIdentity ==
    (Done("div") /\ BVal # 0) =>
        /\ Succeeded(mem, ret.p)
        /\ ValIs(mem, ret.p, TruncQuot(AVal, BVal))
        /\ call.has_r =>
              /\ ValidPtr(mem, ret.rem)
              /\ ValIs(mem, ret.rem, TruncRem(AVal, BVal))

\* C5: for d # 0, bigint_mod(r, n, d) completes without an invalid
\* access and returns the remainder of the division of n by d.
ModRemainder ==
    (Done("mod") /\ BVal # 0) =>
        /\ Succeeded(mem, ret.p)
        /\ ValIs(mem, ret.p, TruncRem(AVal, BVal))

\* C16: bigint_div with a zero denominator returns NULL with errno EDOM,
\* allocates nothing and leaves q, *r, n and d as they were: the machine
\* differs from the one before the call in errno only.
DivByZero ==
    (Done("div") /\ BVal = 0) =>
        /\ ret.p = NULL
        /\ ret.rem = call.rem
        /\ mem.errno = "EDOM"
        /\ mem = [pre EXCEPT !.errno = "EDOM"]

\* A non-zero numerator, with a quotient and a remainder supplied.
DivByZeroWitness ==
    /\ Done("div")
    /\ BVal = 0
    /\ AVal = -458757
    /\ call.dest = call.d
    /\ call.rem = call.e
    /\ ret.p = NULL
    /\ mem.errno = "EDOM"
    /\ Unchanged(pre, mem, call.d)
    /\ Unchanged(pre, mem, call.e)

----------------------------------------------------------------------------
(* The optional destination.                                               *)

DestOperandValues == {0, 1, -3, 8, 255, 256, 1000, -65536}
DestSecondValues == {0, 1, 2, -3, 4, 10}
DestShifts == {0, 1, 3, 8}

\* Bases of the logarithm: invalid, powers of two, others.
LogBases == {0, 1, 2, 3, 4, 10, 16, 256}

DestOperands == Operands(DestOperandValues, DestSecondValues, DestValues, DestShifts)

AbsCall ==
    /\ pc = "ready"
    /\ \E dest \in {NULL, call.d, call.a} :
          Finish(Call("bigint_abs", mem, <<dest, call.a>>), "abs", dest)

FinishLogui(res, dest, base) ==
    /\ mem' = res.M
    /\ pre' = mem
    /\ call' = [call EXCEPT !.op = "logui", !.dest = dest, !.base = base]
    /\ ret' = [NoRet EXCEPT !.p = res.r]
    /\ pc' = "done"

Logui ==
    /\ pc = "ready"
    /\ \E dest \in {NULL, call.d}, base \in LogBases :
          FinishLogui(Call("bigint_logui", mem, <<dest, call.a, base>>), dest, base)

NextDest ==
    \/ DestOperands
    \/ Add \/ Sub \/ Mul \/ MulInPlace \/ Shli \/ Shri \/ Pow \/ Gcd \/ Div
    \/ AbsCall \/ Logui

SpecDest == Init /\ [][NextDest]_vars

\* The operations that take an optional destination.
DestOps ==
    {"add", "sub", "mul", "mul_in_place", "shli", "shri", "pow", "abs", "gcd",
     "logui", "div"}

\* floor(log_base(x)) for x >= 1 and base >= 2.
RECURSIVE FloorLog(_, _)
FloorLog(x, base) == IF x < base THEN 0 ELSE 1 + FloorLog(x \div base, base)

\* C13: when an operation with an optional destination succeeds, it returns
\* the destination if the caller passed one and a fresh big integer only if
\* the caller passed NULL; bigint_logui with a power-of-two base leaves its
\* result in the destination passed.
DestinationReturned ==
    /\ (pc = "done" /\ call.op \in DestOps /\ Succeeded(mem, ret.p)) =>
           /\ call.dest # NULL => ret.p = call.dest
           /\ call.dest = NULL => ~ValidPtr(pre, ret.p)
    /\ (Done("logui") /\ Succeeded(mem, ret.p) /\ call.dest # NULL
            /\ POWER_OF_2(call.base)) =>
           ValIs(mem, call.dest, FloorLog(AVal, call.base))

----------------------------------------------------------------------------
(* Assignment.                                                             *)

MovOperands == Operands(OperandValues, {0}, DestValues, {0})

\* A call that returns an int.
FinishInt(res, op, dest) ==
    /\ mem' = res.M
    /\ pre' = mem
    /\ call' = [call EXCEPT !.op = op, !.dest = dest]
    /\ ret' = [NoRet EXCEPT !.n = res.r]
    /\ pc' = "done"

Mov ==
    /\ pc = "ready"
    /\ \E dest \in {call.d, call.a} :
          FinishInt(Call("bigint_mov", mem, <<dest, call.a>>), "mov", dest)

NextMov == MovOperands \/ Mov

SpecMov == Init /\ [][NextMov]_vars

\* C14: after a successful bigint_mov(dest, src), dest has src's live
\* digits, src's length and src's negative flag, whatever it held before,
\* and src is unchanged.
MovCopies ==
    (Done("mov") /\ ret.n = 0) =>
        /\ ~mem.fault
        /\ S(mem, call.dest).length = S(pre, call.a).length
        /\ \A i \in 0..(S(pre, call.a).length - 1) :
              D(mem, call.dest, i) = D(pre, call.a, i)
        /\ S(mem, call.dest).negative = S(pre, call.a).negative
        /\ Unchanged(pre, mem, call.a)

----------------------------------------------------------------------------
(* Sequences of operations.  The caller keeps the big integers it was      *)
(* given in call.pool and passes them as operands and destinations of      *)
(* further calls; call.n counts the calls.  A call is made in two steps:    *)
(* the caller chooses the function and its arguments, the library runs.    *)

\* Longest sequence of calls.
MaxSteps == 3

SeqInts == {0, -3, 256}
SeqShifts == {1, 8}
SeqTexts == {Text(<<"-", "0">>), Text(<<"0", "x", "1", "F">>)}

SeqReady == pc \in {"start", "seq"} /\ call.n < MaxSteps

Dests == {NULL} \cup call.pool

\* The caller makes the call fn(args).
Issue(fn, args) ==
    /\ call' = [call EXCEPT !.op = fn, !.args = args, !.n = call.n + 1]
    /\ pc' = "call"
    /\ UNCHANGED <<mem, pre, ret>>

SeqFromInt ==
    /\ SeqReady
    /\ \E k \in SeqInts : Issue("bigint_from_int", <<Intmax(k)>>)

SeqFromUint ==
    /\ SeqReady
    /\ \E k \in SeqInts \cap Nat : Issue("bigint_from_uint", <<Uintmax(k)>>)

SeqDup ==
    /\ SeqReady
    /\ \E x \in call.pool : Issue("bigint_dup", <<x>>)

SeqMov ==
    /\ SeqReady
    /\ \E dest \in call.pool, x \in call.pool : Issue("bigint_mov", <<dest, x>>)

SeqMovi ==
    /\ SeqReady
    /\ \E dest \in call.pool, k \in SeqInts : Issue("bigint_movi", <<dest, Intmax(k)>>)

SeqMovui ==
    /\ SeqReady
    /\ \E dest \in call.pool, k \in SeqInts \cap Nat : Issue("bigint_movui", <<dest, Uintmax(k)>>)

SeqInc ==
    /\ SeqReady
    /\ \E x \in call.pool : Issue("bigint_inc", <<x>>)

SeqDec ==
    /\ SeqReady
    /\ \E x \in call.pool : Issue("bigint_dec", <<x>>)

SeqAdd ==
    /\ SeqReady
    /\ \E dest \in Dests, a \in call.pool, b \in call.pool : Issue("bigint_add", <<dest, a, b>>)

SeqSub ==
    /\ SeqReady
    /\ \E dest \in Dests, a \in call.pool, b \in call.pool : Issue("bigint_sub", <<dest, a, b>>)

SeqMul ==
    /\ SeqReady
    /\ \E dest \in Dests, a \in call.pool, b \in call.pool : Issue("bigint_mul", <<dest, a, b>>)

SeqDiv ==
    /\ SeqReady
    /\ \E q \in Dests, has_r \in BOOLEAN, rem \in Dests, n \in call.pool, d \in call.pool :
           /\ rem # NULL => has_r
           /\ Issue("bigint_div", <<q, has_r, rem, n, d>>)

SeqShli ==
    /\ SeqReady
    /\ \E dest \in Dests, x \in call.pool, n \in SeqShifts : Issue("bigint_shli", <<dest, x, n>>)

SeqShri ==
    /\ SeqReady
    /\ \E dest \in Dests, x \in call.pool, n \in SeqShifts : Issue("bigint_shri", <<dest, x, n>>)

\* The exponent is a single digit of at most 3.
SeqPow ==
    /\ SeqReady
    /\ \E dest \in Dests, base \in call.pool, exp \in call.pool :
           /\ S(mem, exp).length <= 1
           /\ D(mem, exp, 0) <= 3
           /\ Issue("bigint_pow", <<dest, base, exp>>)

SeqAbs ==
    /\ SeqReady
    /\ \E dest \in Dests, x \in call.pool : Issue("bigint_abs", <<dest, x>>)

SeqGcd ==
    /\ SeqReady
    /\ \E dest \in Dests, a \in call.pool, b \in call.pool : Issue("bigint_gcd", <<dest, a, b>>)

SeqParse ==
    /\ SeqReady
    /\ \E str \in SeqTexts : Issue("bigint_strtobi", <<str>>)

\* Functions that return nothing, and functions that return an int.
VoidFunctions == {"bigint_movi", "bigint_movui"}
IntFunctions == {"bigint_mov", "bigint_inc", "bigint_dec"}

\* The machine after the call that returned res, the big integers the call
\* gave to the caller, and whether the call succeeded.
ResultMachine(res) == IF call.op \in VoidFunctions THEN res ELSE res.M

ResultPointers(res) ==
    IF call.op \in VoidFunctions \cup IntFunctions THEN {}
    ELSE IF call.op = "bigint_div" THEN {res.r, res.rem} \ {NULL}
    ELSE {res.r}

ResultOk(res) ==
    /\ ~ResultMachine(res).fault
    /\ ~ResultMachine(res).spin
    /\ IF call.op \in VoidFunctions THEN TRUE
       ELSE IF call.op \in IntFunctions THEN res.r = 0
       ELSE res.r # NULL

\* The sequence continues after a successful call and ends at a failed one.
Returned(res) ==
    /\ mem' = ResultMachine(res)
    /\ pre' = mem
    /\ ret' = NoRet
    /\ IF ResultOk(res)
       THEN /\ call' = [call EXCEPT !.pool = call.pool \cup ResultPointers(res)]
            /\ pc' = "seq"
       ELSE /\ call' = call
            /\ pc' = "failed"

\* The library executes the call.
SeqReturn ==
    /\ pc = "call"
    /\ Returned(Call(call.op, mem, call.args))

NextSeq ==
    \/ SeqFromInt \/ SeqFromUint \/ SeqDup \/ SeqMov \/ SeqMovi \/ SeqMovui
    \/ SeqInc \/ SeqDec \/ SeqAdd \/ SeqSub \/ SeqMul \/ SeqDiv
    \/ SeqShli \/ SeqShri \/ SeqPow \/ SeqAbs \/ SeqGcd \/ SeqParse
    \/ SeqReturn

SpecSeq == Init /\ [][NextSeq]_vars

\* C15: after any sequence of successful public operations every big
\* integer the caller holds has no leading zero digit and is not a
\* negative zero.
AlwaysNormalized ==
    pc = "seq" => \A x \in call.pool : ValidPtr(mem, x) => Normalized(mem, x)

----------------------------------------------------------------------------
(* Formatting, and parsing what was formatted.                             *)

\* Values to format: zero, single numerals, values whose repeated division
\* by ten meets 10 (10, 100, 105, 1010), one to three digits, both signs.
TextValues ==
    {0, 1, -1, 5, 9, 10, -10, 64, 99, 100, 105, -105, 255, 256, -256, 1000,
     1010, -1010, 4096, 65535, 65536, -16777215}

Bases == {2, 7, 8, 10, 16}

\* The size of the largest buffer the caller passes to bigint_snbprint.
MaxBuffer == 40

BufferSizes == {0, 1, 2, 3, 4, 5, 8, MaxBuffer}

TextOperands == Operands(TextValues, {0}, {0}, {0})

\* A call that returns or fills a string.
FinishText(res, op, base, buflen) ==
    /\ mem' = res.M
    /\ pre' = mem
    /\ call' = [call EXCEPT !.op = op, !.base = base, !.n = buflen]
    /\ ret' = [NoRet EXCEPT !.n = res.r, !.text = res.buf]
    /\ pc' = "done"

Tostrb ==
    /\ pc = "ready"
    /\ \E base \in Bases :
          FinishText(Call("bigint_tostrb", mem, <<call.a, base>>), "tostrb", base, call.n)

\* The caller's buffer holds arbitrary bytes before the call.
Snbprint ==
    /\ pc = "ready"
    /\ \E base \in Bases, buflen \in BufferSizes :
          FinishText(Call("bigint_snbprint", mem,
                          <<[i \in 1..buflen |-> mem.junk], buflen, call.a, base>>),
                     "snbprint", base, buflen)

Formatted ==
    \/ Done("tostrb") /\ ret.n # NULL
    \/ Done("snbprint") /\ ret.n >= 0

\* The caller parses the string that the formatter produced.
\* A call of the parser: c records the call.
FinishParse(res, c) ==
    /\ mem' = res.M
    /\ call' = c
    /\ ret' = [NoRet EXCEPT !.p = res.r]
    /\ pc' = "done"

ParseBack ==
    /\ Formatted
    /\ ~mem.fault
    /\ pre' = pre
    /\ FinishParse(Call("bigint_strtobi", mem, <<CString(ret.text)>>),
                   [call EXCEPT !.op = "strtobi", !.via = call.op,
                                !.text = CString(ret.text)])

NextText == TextOperands \/ Tostrb \/ Snbprint \/ ParseBack

SpecText == Init /\ [][NextText]_vars

\* The canonical numerals of a non-negative integer.
Canonical(v, base) == Numerals(v, base, 1)

\* The canonical decimal text of an integer.
Decimal(v) == (IF v < 0 THEN Text(<<"-">>) ELSE <<>>) \o Canonical(Abs(v), 10)

\* C2: formatting x in base 2, 8, 10 or 16 and parsing the resulting string
\* gives a big integer equal to x.
RoundTrip ==
    (Done("strtobi") /\ call.via \in {"tostrb", "snbprint"}) =>
        /\ Succeeded(mem, ret.p)
        /\ ValIs(mem, ret.p, AVal)

\* C6: bigint_snbprint in base 10 with a buffer that has room for the
\* text writes '-' exactly when x < 0, then the canonical decimal numerals
\* of |x|, and returns their number.
DecimalCanonical ==
    (Done("snbprint") /\ call.base = 10 /\ call.n > Len(Decimal(AVal))) =>
        /\ ~mem.fault
        /\ ret.n = Len(Decimal(AVal))
        /\ CString(ret.text) = Decimal(AVal)

\* C21: a successful bigint_snbprint returns the length of the string it
\* left in buf, in every base, also when leading zero numerals were trimmed.
PrintReturnsLength ==
    (Done("snbprint") /\ ret.n >= 0) =>
        /\ ~mem.fault
        /\ ret.n = strlen(ret.text)

\* The numerals that follow the sign and the two characters of the prefix.
PrintedNumerals ==
    SubSeq(CString(ret.text), (IF AVal < 0 THEN 4 ELSE 3), strlen(ret.text))

\* C25: in base 8 and in base 16 the numerals that bigint_snbprint leaves
\* after the sign and the prefix are the numerals of |x| in that base.
PrintedNumeralsDenote ==
    (Done("snbprint") /\ call.base \in {8, 16} /\ ret.n >= 0) =>
        /\ ~mem.fault
        /\ PrintedNumerals = Canonical(Abs(AVal), call.base)

----------------------------------------------------------------------------
(* Parsing decimal input with a fraction and an exponent.                  *)

\* Bounds on the input: the numbers of numerals in the integer part and in
\* the fraction, and the largest exponent.
MaxInteger == 1
MaxFraction == 2
MaxExponent == 3

IntegerNumerals == {"0", "3"}
FractionNumerals == {"0", "1", "4"}

\* The strings of at most n characters over an alphabet.
Strings(alphabet, n) == UNION {[1..k -> alphabet] : k \in 0..n}

Signs == {<<>>, <<"+">>, <<"-">>}

\* Exponents are written canonically or with a leading zero.
Exponents ==
    {Canonical(n, 10) : n \in 0..MaxExponent} \cup {Text(<<"0", "2">>)}

\* The value of a string of decimal numerals.
RECURSIVE NumeralsValue(_)
NumeralsValue(str) ==
    IF str = <<>> THEN 0
    ELSE 10 * NumeralsValue(SubSeq(str, 1, Len(str) - 1)) + (str[Len(str)] - Ord("0"))

\* The caller parses str; c records the call apart from its text.
ParseText(str, c) ==
    FinishParse(Call("bigint_strtobi", mem, <<str>>), [c EXCEPT !.text = str])

\* The caller parses sign I "." F ("e" | "E") N.
ParseDecimal ==
    /\ pc = "start"
    /\ \E sign \in Signs, I \in Strings(IntegerNumerals, MaxInteger),
          F \in Strings(FractionNumerals, MaxFraction), e \in {"e", "E"},
          N \in Exponents :
          /\ pre' = mem
          /\ ParseText(Text(sign) \o Text(I) \o Text(<<".">>) \o Text(F)
                           \o Text(<<e>>) \o N,
                       [NoCall EXCEPT !.op = "strtobi", !.via = "caller",
                                      !.a = Len(sign) + Len(I) + 1,
                                      !.b = Len(F), !.n = NumeralsValue(N)])

NextParse == ParseDecimal

SpecParse == Init /\ [][NextParse]_vars

\* The value of I.F * 10^N truncated toward zero, for the input of the call:
\* call.a is the index of the decimal point, call.b the length of F and
\* call.n the exponent.
ParsedSign == IF call.text # <<>> /\ call.text[1] = Ord("-") THEN -1 ELSE 1

ParsedMantissa ==
    NumeralsValue(SelectSeq(SubSeq(call.text, 1, call.a + call.b),
                            LAMBDA c : c >= Ord("0") /\ c <= Ord("9")))

ParsedValue ==
    ParsedSign * (IF call.n >= call.b
                  THEN ParsedMantissa * 10 ^ (call.n - call.b)
                  ELSE ParsedMantissa \div 10 ^ (call.b - call.n))

----------------------------------------------------------------------------
(* Conversion from and to machine integers.                                *)

\* The machine integers the caller converts: small values around the digit
\* boundaries and the ends of the range of intmax_t.
SmallInts == {0, 1, -1, 2, 127, -128, 255, -255, 256, -256, 65535, -65536, 16777215}

ConvWords ==
    {Intmax(k) : k \in SmallInts}
    \cup {INTMAX_MAX, INTMAX_MIN, UintmaxSub(INTMAX_MAX, Uintmax(1)),
          UintmaxAdd(INTMAX_MIN, Uintmax(1)), UintmaxShlDigits(1, DIGITS_FOR_INTMAX - 1)}

\* Shift counts by which the caller widens a value beyond a machine integer.
WidenBits == {1, 7, 8, 56, 63, 64, 72}

Made(res, k) ==
    /\ mem' = res.M
    /\ pre' = mem
    /\ call' = [NoCall EXCEPT !.op = "from_int", !.a = res.r, !.word = k]
    /\ ret' = [NoRet EXCEPT !.p = res.r]
    /\ pc' = "made"

FromInt ==
    /\ pc = "start"
    /\ \E k \in ConvWords : Made(Call("bigint_from_int", mem, <<k>>), k)

Widened(res, n) ==
    /\ res.r # NULL
    /\ mem' = res.M
    /\ pre' = mem
    /\ call' = [call EXCEPT !.op = "shli", !.n = n]
    /\ ret' = [NoRet EXCEPT !.p = res.r]
    /\ pc' = "wide"

\* The caller shifts the value left in place.
Widen ==
    /\ pc = "made"
    /\ ~mem.fault
    /\ \E n \in WidenBits : Widened(Call("bigint_shli", mem, <<call.a, call.a, n>>), n)

FinishWord(res, op) ==
    /\ mem' = res.M
    /\ pre' = mem
    /\ call' = [call EXCEPT !.op = op, !.via = call.op]
    /\ ret' = [NoRet EXCEPT !.word = res.r]
    /\ pc' = "done"

Toi ==
    /\ pc \in {"made", "wide"}
    /\ ~mem.fault
    /\ \E overshift \in OverShifts :
          FinishWord(Call("bigint_toi", mem, <<call.a, overshift>>), "toi")

Toui ==
    /\ pc \in {"made", "wide"}
    /\ ~mem.fault
    /\ FinishWord(Call("bigint_toui", mem, <<call.a>>), "toui")

NextConv == FromInt \/ Widen \/ Toi \/ Toui

SpecConv == Init /\ [][NextConv]_vars

\* C11: bigint_from_int(k) is normalized with negative = (k < 0), and
\* bigint_toi of it returns k and leaves errno as it was.
FromIntRoundTrip ==
    /\ (pc = "made" /\ call.op = "from_int") =>
           /\ Succeeded(mem, call.a)
           /\ Normalized(mem, call.a)
           /\ S(mem, call.a).negative = IntmaxNegative(call.word)
    /\ (Done("toi") /\ call.via = "from_int") =>
           /\ ret.word = call.word
           /\ mem.errno = pre.errno
           /\ mem.errno # "ERANGE"
           /\ ~mem.fault

FromIntRoundTripWitness ==
    /\ Done("toi")
    /\ call.via = "from_int"
    /\ call.word = INTMAX_MIN
    /\ S(mem, call.a).negative
    /\ S(mem, call.a).length = DIGITS_FOR_INTMAX
    /\ ret.word = INTMAX_MIN
    /\ mem.errno = "0"

\* The value of x lies in [INTMAX_MIN, INTMAX_MAX], for a normalized x.
InIntmaxRange(M, x) ==
    \/ S(M, x).length < DIGITS_FOR_INTMAX
    \/ /\ S(M, x).length = DIGITS_FOR_INTMAX
       /\ \/ D(M, x, DIGITS_FOR_INTMAX - 1) <= DIGIT_MAX \div 2
          \/ /\ S(M, x).negative
             /\ D(M, x, DIGITS_FOR_INTMAX - 1) = (DIGIT_MAX \div 2) + 1
             /\ \A i \in 0..(DIGITS_FOR_INTMAX - 2) : D(M, x, i) = 0

\* C17: bigint_toi of a value outside [INTMAX_MIN, INTMAX_MAX] sets errno to
\* ERANGE and returns INTMAX_MAX or INTMAX_MIN according to the sign, and
\* bigint_toui of a non-negative value above UINTMAX_MAX sets errno to ERANGE
\* and returns UINTMAX_MAX, whatever the length of the value.
ConversionSaturates ==
    /\ (Done("toi") /\ Normalized(pre, call.a) /\ ~InIntmaxRange(pre, call.a)) =>
           /\ mem.errno = "ERANGE"
           /\ ret.word = IF S(pre, call.a).negative THEN INTMAX_MIN ELSE INTMAX_MAX
    /\ (Done("toui") /\ Normalized(pre, call.a) /\ ~S(pre, call.a).negative
            /\ S(pre, call.a).length > DIGITS_FOR_INTMAX) =>
           /\ mem.errno = "ERANGE"
           /\ ret.word = UINTMAX_MAX

----------------------------------------------------------------------------
(* Parsing integers in the four bases.                                     *)

\* Longest string of numerals the caller draws from an alphabet.
MaxNumerals == 3

Prefixes ==
    {<<>>, <<"0">>, <<"0", "b">>, <<"0", "B">>, <<"0", "o">>, <<"0", "O">>,
     <<"0", "x">>, <<"0", "X">>}

\* What follows the numerals: nothing, or a decimal point and a fraction.
Tails == {<<>>, <<".">>, <<".", "5">>}

\* The base that the prefix selects; tail is the rest of the input.
SelectedBase(prefix, tail) ==
    IF prefix = <<>> THEN 10
    ELSE IF prefix = <<"0">> THEN (IF tail = <<>> THEN 8 ELSE 10)
    ELSE IF prefix[2] \in {"b", "B"} THEN 2
    ELSE IF prefix[2] \in {"o", "O"} THEN 8
    ELSE 16

\* Numerals of each base, among them the largest and letters of both cases.
BaseNumerals(base) ==
    CASE base = 2 -> {"0", "1"}
      [] base = 8 -> {"0", "1", "7"}
      [] base = 10 -> {"0", "1", "9"}
      [] base = 16 -> {"0", "1", "9", "b", "e", "F"}

\* Strings of numerals valid in every base that fill several digits.
LongNumerals ==
    {<<"1", "0", "0", "0", "0">>, <<"1", "1", "1", "1", "1", "1", "1", "1">>}

\* The strings of numerals that may follow the prefix: without a prefix
\* there is at least one numeral and the first is not 0.
NumeralStrings(prefix, base) ==
    {N \in Strings(BaseNumerals(base), MaxNumerals) \cup LongNumerals :
        /\ prefix # <<"0">> => N # <<>>
        /\ prefix = <<>> => N[1] # "0"}

\* The value of a numeral, letters in either case.
NumeralValue(c) ==
    IF c >= Ord("0") /\ c <= Ord("9") THEN c - Ord("0")
    ELSE IF c >= Ord("a") THEN c - Ord("a") + 10
    ELSE c - Ord("A") + 10

\* The integer that a string of numerals denotes in a base.
RECURSIVE Denotes(_, _)
Denotes(str, base) ==
    IF str = <<>> THEN 0
    ELSE base * Denotes(SubSeq(str, 1, Len(str) - 1), base) + NumeralValue(str[Len(str)])

\* The caller parses sign prefix N tail; call.a is the length of sign and
\* prefix, call.b the length of N and call.base the selected base.
ParseInteger ==
    /\ pc = "start"
    /\ \E sign \in Signs, prefix \in Prefixes, tail \in Tails :
          /\ tail # <<>> => SelectedBase(prefix, tail) = 10
          /\ \E N \in NumeralStrings(prefix, SelectedBase(prefix, tail)) :
                /\ pre' = mem
                /\ ParseText(Text(sign) \o Text(prefix) \o Text(N) \o Text(tail),
                             [NoCall EXCEPT !.op = "strtobi", !.via = "integer",
                                            !.a = Len(sign) + Len(prefix),
                                            !.b = Len(N),
                                            !.base = SelectedBase(prefix, tail)])

NextBase == ParseInteger

SpecBase == Init /\ [][NextBase]_vars

ParsedNumerals == SubSeq(call.text, call.a + 1, call.a + call.b)

----------------------------------------------------------------------------
(* Parsing malformed input.                                                *)

\* After the optional sign: a character that is no numeral, a numeral not
\* below the base, a second decimal point, a decimal point after the
\* exponent marker, a second exponent marker, an exponent marker at the end.
MalformedBodies ==
    {<<"1", " ", "2">>, <<"1", "2", " ">>, <<"1", "+", "2">>, <<"0", "x", "1", "-">>,
     <<"0", "b", "1", "2">>, <<"0", "8">>, <<"0", "o", "7", "8">>, <<"0", "x", "1", "g">>,
     <<"1", "2", "a">>, <<"0", "B", "1", ".", "1">>,
     <<"1", ".", ".", "2">>, <<"1", ".", "2", ".", "3">>, <<".", "5", ".">>,
     <<"1", "e", "2", ".", "5">>, <<"1", "E", ".", "5">>, <<"1", ".", "5", "e", "2", ".">>,
     <<"1", "e", "2", "e", "3">>, <<"1", "e", "E", "3">>, <<"1", ".", "5", "E", "1", "e">>,
     <<"1", "e">>, <<"1", "2", "E">>, <<"1", ".", "5", "e">>}

ParseMalformed ==
    /\ pc = "start"
    /\ \E sign \in Signs, body \in MalformedBodies :
          /\ pre' = mem
          /\ ParseText(Text(sign) \o Text(body),
                       [NoCall EXCEPT !.op = "strtobi", !.via = "malformed",
                                      !.a = Len(sign)])

NextMalformed == ParseMalformed

SpecMalformed == Init /\ [][NextMalformed]_vars

\* C19: for an input with a character that is no numeral, a numeral not
\* below the base, a second '.', a '.' after the exponent marker, a second
\* exponent marker or an exponent marker at the end, the parser returns NULL
\* with errno EINVAL.
MalformedRejected ==
    (Done("strtobi") /\ call.via = "malformed") =>
        /\ ~mem.fault
        /\ ret.p = NULL
        /\ mem.errno = "EINVAL"

\* The parser's result: the first structure that the call allocates.
ParserResult == Len(pre.st) + 1

\* C29: when bigint_strtobif fails on malformed input, before or after the
\* exponent marker, the big integers it allocated are released exactly once:
\* no free of a big integer already freed happens, and the result is not
\* left allocated.
MalformedReleased ==
    (Done("strtobi") /\ call.via = "malformed" /\ ret.p = NULL) =>
        /\ ~mem.fault
        /\ ~ValidPtr(mem, ParserResult)

----------------------------------------------------------------------------
(* The fraction pointer.                                                   *)

\* Fractions of more numerals than MaxFraction.
LongFractions == {<<"1", "4", "1">>, <<"1", "4", "1", "5">>, <<"1", "0", "4", "0">>}

FinishFraction(res, c) ==
    /\ mem' = res.M
    /\ pre' = mem
    /\ call' = c
    /\ ret' = [NoRet EXCEPT !.p = res.r, !.n = res.fraction]
    /\ pc' = "done"

ParseWithFraction(str, c) ==
    FinishFraction(Call("bigint_strtobif", mem, <<str, TRUE>>), [c EXCEPT !.text = str])

\* The caller parses sign I "." F ("e" | "E") N and passes a fraction
\* pointer; ret.n is the index in the input that *fraction points to
\* afterwards, 0 if *fraction was not assigned.
ParseFraction ==
    /\ pc = "start"
    /\ \E sign \in Signs, I \in Strings(IntegerNumerals, MaxInteger),
          F \in Strings(FractionNumerals, MaxFraction) \cup LongFractions,
          e \in {"e", "E"}, N \in Exponents :
          ParseWithFraction(Text(sign) \o Text(I) \o Text(<<".">>) \o Text(F)
                                \o Text(<<e>>) \o N,
                            [NoCall EXCEPT !.op = "strtobif", !.via = "caller",
                                           !.a = Len(sign) + Len(I) + 1,
                                           !.b = Len(F), !.n = NumeralsValue(N)])

NextFraction == ParseFraction

SpecFraction == Init /\ [][NextFraction]_vars

\* A fraction without its trailing zeros.
RECURSIVE Significant(_)
Significant(F) ==
    IF F # <<>> /\ F[Len(F)] = Ord("0") THEN Significant(SubSeq(F, 1, Len(F) - 1)) ELSE F

ParsedFraction == SubSeq(call.text, call.a + 1, call.a + call.b)

\* C20: for sign I "." F ("e" | "E") N with a fraction pointer, *fraction is
\* set to the first numeral of F not consumed into the result if a
\* significant numeral of F remains when the exponent reaches zero, and is
\* left untouched if every significant numeral of F was consumed.
FractionPointer ==
    Done("strtobif") =>
        /\ Succeeded(mem, ret.p)
        /\ ret.n = IF Len(Significant(ParsedFraction)) > call.n
                   THEN call.a + call.n + 1
                   ELSE 0

----------------------------------------------------------------------------
(* The power-of-two predicate.                                             *)

\* Largest exponent of the powers of two that are tested.
MaxPowerLog == 30

PowersOfTwo == {2 ^ k : k \in 0..MaxPowerLog}

\* Powers of two of one to four digits, their neighbours, their negations,
\* zero, and values whose top digit alone is a power of two.
PowerOf2Values ==
    LET near == PowersOfTwo \cup {p + 1 : p \in PowersOfTwo} \cup {p - 1 : p \in PowersOfTwo}
                  \cup {768, 6, 258, 65792, 16777472}
    IN near \cup {-v : v \in near}

PowerOf2Operands == Operands(PowerOf2Values, {0}, {0}, {0})

IsPowerOf2 ==
    /\ pc = "ready"
    /\ FinishInt(Ret(mem, IF Call("bigint_is_power_of_2", mem, <<call.a>>) THEN 1 ELSE 0),
                 "is_power_of_2", NULL)

NextPowerOf2 == PowerOf2Operands \/ IsPowerOf2

SpecPowerOf2 == Init /\ [][NextPowerOf2]_vars

\* C23: bigint_is_power_of_2(x) is true exactly when x > 0 and x is 2^k for
\* some k >= 0: false for zero and for every negative x.
PowerOf2Iff ==
    Done("is_power_of_2") =>
        /\ ~mem.fault
        /\ (ret.n = 1) <=> (AVal > 0 /\ AVal \in PowersOfTwo)

----------------------------------------------------------------------------
(* The integer logarithm.                                                  *)

\* Arguments of the logarithm: not positive, 1, powers of the bases and
\* their neighbours, one to three digits.
LogValues ==
    {0, -8, 1, 2, 7, 8, 9, 10, 99, 100, 999, 1000, 1024, 65535, 65536, 999999,
     1000000}

LogOperands == Operands(LogValues, {0}, DestValues, {0})

NextLog == LogOperands \/ Logui

SpecLog == Init /\ [][NextLog]_vars

\* C24: for x > 0 and base >= 2 bigint_logui returns the k with
\* base^k <= x < base^(k+1); for x <= 0 or base < 2 it returns NULL with
\* errno EDOM.
LogIsFloor ==
    Done("logui") =>
        /\ ~mem.fault
        /\ IF AVal > 0 /\ call.base >= 2
           THEN /\ Succeeded(mem, ret.p)
                /\ ValIs(mem, ret.p, FloorLog(AVal, call.base))
           ELSE /\ ret.p = NULL
                /\ mem.errno = "EDOM"

----------------------------------------------------------------------------
(* Initialisation and teardown of the library.  A run starts before the    *)
(* first bigint_init; the caller then calls bigint_init and bigint_cleanup *)
(* in any order.                                                           *)

\* Longest sequence of calls of bigint_init and bigint_cleanup.
MaxLifeCalls == 5

\* Allocations that succeed before malloc fails; -1: malloc never fails.
\* bigint_init makes 2 * (SMALL_NUMBER_CACHE_MAX + 1) allocations.
LifeFuel == {-1} \cup 0..(2 * (SMALL_NUMBER_CACHE_MAX + 1))

InitLife ==
    /\ \E j \in JunkDigits, f \in LifeFuel : mem = StartMachine(j, f)
    /\ pre = mem
    /\ call = NoCall
    /\ ret = NoRet
    /\ pc = "life"

FinishLife(res, op) ==
    /\ mem' = res.M
    /\ pre' = mem
    /\ call' = [call EXCEPT !.op = op, !.n = call.n + 1]
    /\ ret' = [NoRet EXCEPT !.n = res.r]
    /\ pc' = "life"

LibInit ==
    /\ pc = "life"
    /\ call.n < MaxLifeCalls
    /\ FinishLife(Call("bigint_init", mem, <<>>), "init")

LibCleanup ==
    /\ pc = "life"
    /\ call.n < MaxLifeCalls
    /\ FinishLife(Ret(Call("bigint_cleanup", mem, <<>>), 0), "cleanup")

NextLife == LibInit \/ LibCleanup

SpecLife == InitLife /\ [][NextLife]_vars

\* Entry k of the small-number cache is a live big integer of value k.
CacheEntryHolds(M, k) ==
    /\ small_number_cache(M, k) # NULL
    /\ ValidPtr(M, small_number_cache(M, k))
    /\ ValIs(M, small_number_cache(M, k), k)

\* C26: after any sequence of bigint_init and bigint_cleanup calls no entry
\* has been freed twice, and whenever the most recent call is a bigint_init
\* that returned 0, every entry k of the small-number cache is a live big
\* integer holding k.
CachePopulated ==
    /\ ~mem.fault
    /\ (pc = "life" /\ call.op = "init" /\ ret.n = 0) =>
           \A k \in 0..SMALL_NUMBER_CACHE_MAX : CacheEntryHolds(mem, k)

----------------------------------------------------------------------------
(* Multiplication and right shift of operands of many digits.              *)

\* Operands: seeds of one to three digits, shifted left by whole digits to
\* lengths of up to 17 digits; a big integer created with bigint_from_int
\* has room for 2 * DIGITS_FOR_INTMAX digits.
LongSeeds == {3, -255, 257}
LongSecondSeeds == {3, 65537}
LongShifts == {0, 56, 64, 128}
LongSecondShifts == {0, 64}

\* Right shifts of at most 9 bits: every read of the source is at an index
\* of at most its length, inside its allocation, so that an invalid access
\* in bigint_shri is an access to the destination.
ShortShifts == {0, 1, 8, 9}

LongOperands ==
    /\ pc = "start"
    /\ \E av \in LongSeeds, sa \in LongShifts, bv \in LongSecondSeeds,
          sb \in LongSecondShifts, n \in ShortShifts :
          Start(Call("long_operands", mem, <<av, sa, bv, sb>>), n)

LongMul ==
    /\ pc = "ready"
    /\ \E dest \in {NULL, call.d} :
          Finish(Call("bigint_mul", mem, <<dest, call.a, call.b>>), "long_mul", dest)

LongShri ==
    /\ pc = "ready"
    /\ \E dest \in {NULL, call.d, call.b, call.a} :
          Finish(Call("bigint_shri", mem, <<dest, call.a, call.n>>), "long_shri", dest)

NextBounds == LongOperands \/ LongMul \/ LongShri

SpecBounds == Init /\ [][NextBounds]_vars

\* C28: every access that bigint_mul and bigint_shri make to the digits of
\* the destination is at an index below the destination's capacity, for
\* operands of any two lengths and for any destination.
AccessesInBounds ==
    (Done("long_mul") \/ Done("long_shri")) => ~mem.fault

----------------------------------------------------------------------------
(* The multiply-accumulate step of bigint_mul at each digit width.  A C    *)
(* unsigned value of n bytes is the sequence of its bytes, least           *)
(* significant first; int and unsigned int have 4 bytes.                   *)

\* The digit widths of bigint.h, in bits.
DigitWidths == {8, 16, 32, 64}

\* Conversion to an unsigned type of n bytes: truncation or zero extension.
WordResize(x, n) == [i \in 1..n |-> IF i <= Len(x) THEN x[i] ELSE 0]

\* x + y + carry modulo 2^(8 Len(x)), from byte i upward.
RECURSIVE WordAddFrom(_, _, _, _)
WordAddFrom(x, y, carry, i) ==
    IF i > Len(x) THEN <<>>
    ELSE <<(x[i] + y[i] + carry) % 256>>
         \o WordAddFrom(x, y, (x[i] + y[i] + carry) \div 256, i + 1)

WordAdd(x, y) == WordAddFrom(x, y, 0, 1)

\* x * d + carry modulo 2^(8 Len(x)) for a byte d, from byte i upward.
RECURSIVE WordScaleFrom(_, _, _, _)
WordScaleFrom(x, d, carry, i) ==
    IF i > Len(x) THEN <<>>
    ELSE <<(x[i] * d + carry) % 256>>
         \o WordScaleFrom(x, d, (x[i] * d + carry) \div 256, i + 1)

\* x << 8k and x >> 8k.
WordShlBytes(x, k) == [i \in 1..Len(x) |-> IF i > k THEN x[i - k] ELSE 0]
WordShrBytes(x, k) == [i \in 1..Len(x) |-> IF i + k <= Len(x) THEN x[i + k] ELSE 0]

\* x & (2^(8k) - 1)
WordLowBytes(x, k) == [i \in 1..Len(x) |-> IF i <= k THEN x[i] ELSE 0]

WordOr(x, y) == [i \in 1..Len(x) |-> BitOr(x[i], y[i])]

\* x * y modulo 2^(8 Len(x)), from byte i of y upward.
RECURSIVE WordMulFrom(_, _, _)
WordMulFrom(x, y, i) ==
    IF i > Len(y) THEN [k \in 1..Len(x) |-> 0]
    ELSE WordAdd(WordShlBytes(WordScaleFrom(x, y[i], 0, 1), i - 1),
                 WordMulFrom(x, y, i + 1))

WordMul(x, y) == WordMulFrom(x, y, 1)

\* x < y as unsigned numbers, deciding from byte i downward.
RECURSIVE WordLessFrom(_, _, _)
WordLessFrom(x, y, i) ==
    IF i = 0 THEN FALSE
    ELSE IF x[i] # y[i] THEN x[i] < y[i]
    ELSE WordLessFrom(x, y, i - 1)

WordLess(x, y) == WordLessFrom(x, y, Len(x))

\* a_i * b_j does not fit in int.
IntOverflows(a_i, b_j) ==
    LET exact == WordMul(WordResize(a_i, 8), WordResize(b_j, 8))
    IN exact[4] >= 128 \/ \E i \in 5..8 : exact[i] # 0

\* With DIGIT_SUPER_TYPE, widths 8, 16 and 32:
\*   product = dest->digits[i + j] + carry + a_i * b_j;
\*   carry = DIGIT_MAX & (product >> DIGIT_BITS);
\*   product = DIGIT_MAX & product;
\* a_i * b_j is computed in int for the widths 8 and 16 (integer promotion
\* of digit_tt) and in unsigned int for the width 32; the sum is computed
\* in int for the width 8, in unsigned int for the width 16 and in uint64_t
\* for the width 32, and converted to digit_super_tt.  For the width 16 the
\* multiplication is undefined when the product does not fit in int; the
\* bytes returned are those of the product modulo 2^32.
mul_accumulate_super(width, acc, carry, a_i, b_j) ==
    LET w == width \div 8
        factors == WordMul(WordResize(a_i, 4), WordResize(b_j, 4))
        sum_bytes == IF width = 32 THEN 8 ELSE 4
        sum == WordAdd(WordAdd(WordResize(acc, sum_bytes), WordResize(carry, sum_bytes)),
                       WordResize(factors, sum_bytes))
        product == WordResize(sum, 2 * w)
    IN [low |-> WordResize(WordLowBytes(product, w), w),
        carry |-> WordLowBytes(WordShrBytes(product, w), w),
        undefined |-> width = 16 /\ IntOverflows(a_i, b_j)]

\* u128add64(&msb, &lsb, addend)
u128add64(msb, lsb, addend) ==
    IF addend = WordResize(<<>>, 8) THEN [msb |-> msb, lsb |-> lsb]
    ELSE LET new_lsb == WordAdd(lsb, addend)
         IN [msb |-> IF WordLess(new_lsb, lsb)
                     THEN WordAdd(msb, WordResize(<<1>>, 8)) ELSE msb,
             lsb |-> new_lsb]

\* u128fma64(&msb, &lsb, a, b, c)
u128fma64(a, b, c) ==
    LET al == WordLowBytes(a, 4)
        ah == WordShrBytes(a, 4)
        bl == WordLowBytes(b, 4)
        bh == WordShrBytes(b, 4)
        al_bl == WordMul(al, bl)
        ah_bl == WordMul(ah, bl)
        al_bh == WordMul(al, bh)
        ah_bh == WordMul(ah, bh)
        cross == WordAdd(WordAdd(WordShrBytes(al_bl, 4), WordLowBytes(ah_bl, 4)), al_bh)
        msb == WordAdd(WordAdd(WordShrBytes(ah_bl, 4), WordShrBytes(cross, 4)), ah_bh)
        lsb == WordOr(WordShlBytes(cross, 4), WordLowBytes(al_bl, 4))
    IN u128add64(msb, lsb, c)

\* Without DIGIT_SUPER_TYPE, width 64:
\*   u128fma64(&carry, &product, a_i, b_j, carry);
\*   u128add64(&carry, &product, dest->digits[i + j]);
mul_accumulate_u128(acc, carry, a_i, b_j) ==
    LET fma == u128fma64(a_i, b_j, carry)
        sum == u128add64(fma.msb, fma.lsb, acc)
    IN [low |-> sum.lsb, carry |-> sum.msb, undefined |-> FALSE]

\* One pass of the inner loop of bigint_mul: low is stored in
\* dest->digits[i + j], carry is the carry of the next pass.
mul_accumulate(width, acc, carry, a_i, b_j) ==
    IF width = 64 THEN mul_accumulate_u128(acc, carry, a_i, b_j)
    ELSE mul_accumulate_super(width, acc, carry, a_i, b_j)

\* Outcomes of a signed multiplication that overflows: the product modulo
\* 2^32, or a trap.
SignedOverflows == {"wrap", "trap"}

\* Digits of w bytes: 0, 1, 3, 255, 46341 (whose square is the least that
\* does not fit in int), 2^(W/2), 2^(W-1) and 2^W - 1.
DigitSamples(w) ==
    {[i \in 1..w |-> IF i = 1 THEN k ELSE 0] : k \in {0, 1, 3, 255}}
        \cup {[i \in 1..w |-> IF i = 1 THEN 5 ELSE IF i = 2 THEN 181 ELSE 0],
              [i \in 1..w |-> IF w = 1 THEN 16 ELSE IF i = (w \div 2) + 1 THEN 1 ELSE 0],
              [i \in 1..w |-> IF i = w THEN 128 ELSE 0],
              [i \in 1..w |-> 255]}

\* The digit in the accumulator and the carry of the previous pass.
AccumulatorSamples(w) ==
    {[i \in 1..w |-> 0], [i \in 1..w |-> IF i = 1 THEN 1 ELSE 0], [i \in 1..w |-> 255]}

FinishAccumulate(res, width, args, overflow) ==
    /\ mem' = IF res.undefined /\ overflow = "trap" THEN Fault(mem) ELSE mem
    /\ pre' = mem
    /\ call' = [NoCall EXCEPT !.op = "mul_accumulate", !.n = width, !.args = args]
    /\ ret' = [NoRet EXCEPT !.digits = <<res.low, res.carry>>]
    /\ pc' = "done"

MulAccumulate ==
    /\ pc = "start"
    /\ \E width \in DigitWidths, overflow \in SignedOverflows :
          \E a_i \in DigitSamples(width \div 8), b_j \in DigitSamples(width \div 8),
             acc \in AccumulatorSamples(width \div 8),
             carry \in AccumulatorSamples(width \div 8) :
             FinishAccumulate(mul_accumulate(width, acc, carry, a_i, b_j), width,
                              <<acc, carry, a_i, b_j>>, overflow)

NextWidth == MulAccumulate

SpecWidth == Init /\ [][NextWidth]_vars

\* acc + carry + a_i * b_j in 2W bits, where it is exact.
ExactAccumulate(w, acc, carry, a_i, b_j) ==
    WordAdd(WordAdd(WordResize(acc, 2 * w), WordResize(carry, 2 * w)),
            WordMul(WordResize(a_i, 2 * w), WordResize(b_j, 2 * w)))

\* C30: at every digit width W the multiply-accumulate step of bigint_mul
\* stores the low W bits and carries the high W bits of the 2W-bit value
\* digits[i+j] + carry + a[i] * b[j], so that two single-digit operands
\* have the exact product.
AccumulateExact ==
    Done("mul_accumulate") =>
        LET w == call.n \div 8
            exact == ExactAccumulate(w, call.args[1], call.args[2], call.args[3],
                                     call.args[4])
        IN /\ ~mem.fault
           /\ ret.digits[1] = WordResize(exact, w)
           /\ WordResize(ret.digits[2], 2 * w) = WordShrBytes(exact, w)

----------------------------------------------------------------------------
(* Allocation failure.  The caller creates its operands; from then on      *)
(* malloc succeeds a given number of times and fails afterwards.           *)

\* Largest number of allocations that succeed inside the call.
MaxAllocations == 8

AllocValues == {0, 1, 3, -5, 300}
AllocSecondValues == {0, 1, 2, 3, 7}
AllocTexts == {Text(<<"7">>), Text(<<"-", "1", "2">>), Text(<<"2", "e", "1">>)}

StartFailing(o, fuel) ==
    /\ mem' = [o.M EXCEPT !.fuel = fuel]
    /\ pre' = [o.M EXCEPT !.fuel = fuel]
    /\ call' = [NoCall EXCEPT !.a = o.a, !.b = o.b, !.d = o.d, !.e = o.e, !.n = fuel]
    /\ ret' = NoRet
    /\ pc' = "ready"

AllocOperands ==
    /\ pc = "start"
    /\ \E av \in AllocValues, bv \in AllocSecondValues, dv \in {0, -3},
          fuel \in 0..MaxAllocations :
          StartFailing(Call("operands", mem, <<av, bv, dv>>), fuel)

AllocParse ==
    /\ pc = "ready"
    /\ pre' = mem
    /\ \E str \in AllocTexts :
          FinishParse(Call("bigint_strtobi", mem, <<str>>),
                      [call EXCEPT !.op = "strtobi", !.via = "alloc", !.text = str])

NextAlloc == AllocOperands \/ Mul \/ Div \/ Pow \/ AllocParse

SpecAlloc == Init /\ [][NextAlloc]_vars

\* The big integers the caller holds: its operands and destinations and
\* the entries of the small-number cache.
CallerIntegers ==
    {call.a, call.b, call.d, call.e}
        \cup {small_number_cache(pre, k) : k \in 0..SMALL_NUMBER_CACHE_MAX}

\* x is allocated in M2 and has the sign, the length and the digits that
\* it has in M1.
SameValue(M1, M2, x) ==
    /\ ValidPtr(M2, x)
    /\ S(M2, x).length = S(M1, x).length
    /\ S(M2, x).negative = S(M1, x).negative
    /\ \A i \in 0..(S(M1, x).length - 1) : D(M2, x, i) = D(M1, x, i)

\* The structures that are allocated.
LiveStructs(M) == {p \in DOMAIN M.st : M.st[p].live}

\* An allocation failed during the call.
AllocationFailed ==
    /\ pc = "done"
    /\ call.op \in {"mul", "div", "pow", "strtobi"}
    /\ pre.errno # "ENOMEM"
    /\ mem.errno = "ENOMEM"

\* C22: when an allocation fails inside bigint_mul, bigint_div, bigint_pow
\* or the parser, the call reports failure, makes no invalid access, leaves
\* every big integer of the caller allocated with its value, and leaves no
\* intermediate big integer allocated.
AllocationFailureSafe ==
    AllocationFailed =>
        /\ ~mem.fault
        /\ ret.p = NULL
        /\ \A x \in CallerIntegers : SameValue(pre, mem, x)
        /\ LiveStructs(mem) = LiveStructs(pre)

----------------------------------------------------------------------------
(* Storage beyond the length.                                              *)

\* Contents of the digit slots at indices >= length in the second of two
\* executions.
StaleDigits == {0, 7, 165}

StaleValues == {0, 1, 5, 10, 105, 255, 256, -300}

StaleSecondValues == {1, 2, 10, 16}

StaleShifts == {0, 1, 8, 9}

StaleBases == {2, 8, 10, 16}

StaleOperands == Operands(StaleValues, StaleSecondValues, {0, 66051}, StaleShifts)

\* bigint_movui(a, 0): a becomes zero and keeps the digits it held.
StaleZero ==
    /\ pc = "ready"
    /\ call.via = "none"
    /\ mem' = Call("bigint_movui", mem, <<call.a, UintmaxZero>>)
    /\ pre' = mem
    /\ call' = [call EXCEPT !.via = "zeroed"]
    /\ UNCHANGED <<ret, pc>>

\* The sign, the length and the digits below the length of x.
LiveValue(M, x) ==
    IF ~ValidPtr(M, x) THEN <<>>
    ELSE <<S(M, x).negative, S(M, x).length,
           [i \in 1..S(M, x).length |-> D(M, x, i - 1)]>>

\* What a call returned, by the kind of its result.
RetOf(res, kind) ==
    CASE kind = "div" -> [NoRet EXCEPT !.p = res.r, !.rem = res.rem]
      [] kind = "text" -> [NoRet EXCEPT !.n = res.r, !.text = res.buf]
      [] kind = "int" -> [NoRet EXCEPT !.n = res.r]
      [] OTHER -> [NoRet EXCEPT !.p = res.r]

\* What the caller can observe after a call that returned r and left the
\* machine M: the returned value, the string written, and the values of the
\* returned big integers and of the caller's big integers xs.
Observed(M, r, xs) ==
    IF M.fault THEN [fault |-> TRUE]
    ELSE [fault |-> FALSE, p |-> r.p, rem |-> r.rem, n |-> r.n,
          text |-> IF r.n > 0 THEN CString(r.text) ELSE <<>>,
          values |-> [x \in xs \cup {r.p, r.rem} |-> LiveValue(M, x)]]

StaleIntegers == {call.a, call.b, call.d, call.e}

FinishStale(res, op, dest, kind) ==
    /\ mem' = res.first.M
    /\ pre' = mem
    /\ call' = [call EXCEPT !.op = op, !.dest = dest]
    /\ ret' = [RetOf(res.first, kind) EXCEPT
                  !.twin = Observed(res.second.M, RetOf(res.second, kind), StaleIntegers)]
    /\ pc' = "done"

StaleShri ==
    /\ pc = "ready"
    /\ \E dest \in {NULL, call.d, call.a}, v \in StaleDigits :
          FinishStale(Call("stale_twin", mem,
                           <<"bigint_shri", <<dest, call.a, call.n>>, v>>),
                      "stale_shri", dest, "ptr")

StaleShli ==
    /\ pc = "ready"
    /\ \E dest \in {NULL, call.d, call.a}, v \in StaleDigits :
          FinishStale(Call("stale_twin", mem,
                           <<"bigint_shli", <<dest, call.a, call.n>>, v>>),
                      "stale_shli", dest, "ptr")

StaleAdd ==
    /\ pc = "ready"
    /\ \E dest \in {NULL, call.d, call.a}, v \in StaleDigits :
          FinishStale(Call("stale_twin", mem,
                           <<"bigint_add", <<dest, call.a, call.b>>, v>>),
                      "stale_add", dest, "ptr")

StaleMul ==
    /\ pc = "ready"
    /\ \E dest \in {NULL, call.d}, v \in StaleDigits :
          FinishStale(Call("stale_twin", mem,
                           <<"bigint_mul", <<dest, call.a, call.b>>, v>>),
                      "stale_mul", dest, "ptr")

StaleMov ==
    /\ pc = "ready"
    /\ \E v \in StaleDigits :
          FinishStale(Call("stale_twin", mem,
                           <<"bigint_mov", <<call.d, call.a>>, v>>),
                      "stale_mov", call.d, "int")

StaleDiv ==
    /\ pc = "ready"
    /\ \E q \in {NULL, call.d}, rem \in {NULL, call.e}, v \in StaleDigits :
          FinishStale(Call("stale_twin", mem,
                           <<"bigint_div", <<q, TRUE, rem, call.a, call.b>>, v>>),
                      "stale_div", q, "div")

\* The caller's buffer holds the same bytes in both executions.
StalePrint ==
    /\ pc = "ready"
    /\ \E base \in StaleBases, v \in StaleDigits :
          FinishStale(Call("stale_twin", mem,
                           <<"bigint_snbprint",
                             <<[i \in 1..MaxBuffer |-> 0], MaxBuffer, call.a, base>>, v>>),
                      "stale_print", base, "text")

NextStale ==
    \/ StaleOperands \/ StaleZero
    \/ StaleShri \/ StaleShli \/ StaleAdd \/ StaleMul \/ StaleMov \/ StaleDiv
    \/ StalePrint

SpecStale == Init /\ [][NextStale]_vars

StaleOps ==
    {"stale_shri", "stale_shli", "stale_add", "stale_mul", "stale_mov",
     "stale_div", "stale_print"}

\* C27: two executions of a public operation whose inputs agree on length,
\* sign and digits below the length, and differ in the digit slots at
\* indices >= length and in storage never initialised, return the same
\* value, leave the same values in the caller's big integers, and write
\* the same text.
StaleIndependent ==
    (pc = "done" /\ call.op \in StaleOps)
        => Observed(mem, ret, StaleIntegers) = ret.twin

====
